---- MODULE Spec2Model ----
(***************************************************************************)
(* A model of the auth service's credential store and of the request      *)
(* handlers that read and write it.  Every handler is a small process      *)
(* that runs in a request slot; each of its steps is one awaited store     *)
(* call (one atomic statement, or one $transaction) together with the      *)
(* pure computation around it.  Slots interleave freely, which is how      *)
(* concurrent requests of the Node process interleave at their awaits.     *)
(***************************************************************************)
EXTENDS Integers, Sequences, FiniteSets, TLC

VARIABLES
  now,            \* wall clock, in whole seconds (what jose's iat holds)
  users,          \* table users: row id = index
  emailTokens,    \* table email_tokens
  refreshTokens,  \* table refresh_tokens
  resetTokens,    \* table password_reset_tokens
  identities,     \* table identities
  mailQueue,      \* jobs handed to emailQueue.add
  rng,            \* number of random tokens drawn so far (randomBytes)
  jar,            \* refresh JWTs delivered to clients in cookies
  req,            \* request slots: the handler running in each, its locals
  hist,           \* history of completed operations (for the properties)
  isConnected,    \* lib/prisma.js: module-level connection flag
  connectionAttempts  \* lib/prisma.js: module-level attempt counter

vars == <<now, users, emailTokens, refreshTokens, resetTokens, identities,
          mailQueue, rng, jar, req, hist, isConnected, connectionAttempts>>

\* The module-level state of lib/prisma.js.
connection == <<isConnected, connectionAttempts>>

db == <<users, emailTokens, refreshTokens, resetTokens, identities>>

(***************************************************************************)
(* Bounds of the model.                                                    *)
(***************************************************************************)
MaxTime == 1
NumSlots == 2
MaxRefreshRows == 3
MaxResetRows == 1
MaxUsers == 2
MaxEmailRows == 2
NumAdminSlots == 3

Slots == 1..NumSlots

(***************************************************************************)
(* Program constants.                                                      *)
(***************************************************************************)
SecondsPerDay == 86400
SecondsPerHour == 3600
RefreshRowDays == 30
JwtRefreshExpiryDays == 30
JwtAccessExpiryMinutes == 15
SecondsPerMinute == 60
ResetTokenHours == 1
MinPasswordLength == 8
EMAIL_TOKEN_EXPIRY_HOURS == 24
ALLOW_UNVERIFIED_LOGIN == FALSE

(***************************************************************************)
(* Values.  An email is its lower-cased, trimmed text plus two flags that  *)
(* say whether the text as typed had upper-case letters or surrounding     *)
(* white space.  A password is the sequence of its characters' classes.    *)
(***************************************************************************)
Email(local, upper, pad) == [local |-> local, upper |-> upper, pad |-> pad]

normalizeEmail(email) == [email EXCEPT !.upper = FALSE, !.pad = FALSE]

PwA == <<"U", "L", "L", "L", "D", "D", "D", "D">>
PwB == <<"U", "U", "L", "L", "D", "D", "D", "D">>

NullHash == <<>>
argon2Hash(password) == <<"argon2id", password>>
argon2Verify(passwordHash, password) == passwordHash = argon2Hash(password)

\* A store that keeps the token itself.
plainToken(token) == token

hashToken(token) == <<"hmac-sha256", token>>

\* randomBytes(32).toString('hex'): the n-th token that reaches the store is a
\* value never drawn before (a draw that is thrown away is seen by nobody).
generateToken(n) == <<"token", n>>

\* jose signs {userId, type, iat, exp, iss, aud} with HS256: the token is a
\* function of the user and of the second it is made in, and of nothing else.
createRefreshToken(userId, t) ==
  [userId |-> userId, type |-> "refresh", iat |-> t,
   exp |-> t + JwtRefreshExpiryDays * SecondsPerDay]

\* jose signs {userId, email, type, iat, exp, iss, aud} with HS256.
createAccessToken(userId, email, t) ==
  [userId |-> userId, email |-> email, type |-> "access", iat |-> t,
   exp |-> t + JwtAccessExpiryMinutes * SecondsPerMinute]

verifyJWT(token, t) == t < token.exp

\* getTokenFromCookie found no cookie of the name.
NoToken == [type |-> "none"]

(***************************************************************************)
(* Store helpers.                                                          *)
(***************************************************************************)
Rows(table) == 1..Len(table)

findUserByEmail(email) ==
  LET hits == {i \in Rows(users) : users[i].email = email}
  IN  IF hits = {} THEN 0 ELSE CHOOSE i \in hits : TRUE

\* prisma.refreshToken.findFirst({tokenHash, revoked: false, expiresAt > now})
findValidRefreshToken(tokenHash, t) ==
  LET hits == {i \in Rows(refreshTokens) :
                 /\ refreshTokens[i].tokenHash = tokenHash
                 /\ ~refreshTokens[i].revoked
                 /\ refreshTokens[i].expiresAt > t}
  IN  IF hits = {} THEN 0 ELSE CHOOSE i \in hits : \A j \in hits : i <= j

\* An updateMany without the filter on revoked.
revokeEveryMatch(tokenHash, t) ==
  [i \in Rows(refreshTokens) |->
     IF refreshTokens[i].tokenHash = tokenHash
     THEN [refreshTokens[i] EXCEPT !.revoked = TRUE, !.revokedAt = t]
     ELSE refreshTokens[i]]

\* prisma.refreshToken.updateMany({tokenHash, revoked: false} -> revoked)
revokeRefreshToken(tokenHash, t) ==
  [i \in Rows(refreshTokens) |->
     IF refreshTokens[i].tokenHash = tokenHash /\ ~refreshTokens[i].revoked
     THEN [refreshTokens[i] EXCEPT !.revoked = TRUE, !.revokedAt = t]
     ELSE refreshTokens[i]]

\* prisma.refreshToken.updateMany({userId, revoked: false} -> revoked)
revokeAllUserRefreshTokens(userId, t) ==
  [i \in Rows(refreshTokens) |->
     IF refreshTokens[i].userId = userId /\ ~refreshTokens[i].revoked
     THEN [refreshTokens[i] EXCEPT !.revoked = TRUE, !.revokedAt = t]
     ELSE refreshTokens[i]]

storeRefreshToken(userId, tokenHash, expiresAt) ==
  Append(refreshTokens,
         [userId |-> userId, tokenHash |-> tokenHash, expiresAt |-> expiresAt,
          revoked |-> FALSE, revokedAt |-> -1])

\* prisma.passwordResetToken.findFirst({tokenHash, used: false, expiresAt > now})
findValidResetToken(tokenHash, t) ==
  LET hits == {i \in Rows(resetTokens) :
                 /\ resetTokens[i].tokenHash = tokenHash
                 /\ ~resetTokens[i].used
                 /\ resetTokens[i].expiresAt > t}
  IN  IF hits = {} THEN 0 ELSE CHOOSE i \in hits : \A j \in hits : i <= j

(***************************************************************************)
(* Request slots.                                                          *)
(***************************************************************************)
NoArg == [none |-> TRUE]

IdleReq ==
  [op |-> "none", pc |-> "idle", arg |-> NoArg, loc |-> NoArg,
   status |-> 0, err |-> "", msg |-> "", cookies |-> "kept",
   gh |-> [peers |-> {}]]

Free(p) == req[p].pc \in {"idle", "done"}
\* Slots have no identity in the service: a new request takes the first free one.
Startable(p) == Free(p) /\ \A q \in DOMAIN req : Free(q) => p <= q
Running(p) == ~Free(p)
InFlight == {p \in DOMAIN req : Running(p)}

\* A slot that starts a new request is no longer the request its peers ran
\* beside.
Begin(p, op, pc, arg, gh) ==
  req' = [q \in DOMAIN req |->
            IF q = p
            THEN [op |-> op, pc |-> pc, arg |-> arg, loc |-> NoArg,
                  status |-> 0, err |-> "", msg |-> "", cookies |-> "kept",
                  gh |-> [gh EXCEPT !.peers = InFlight \ {p}]]
            ELSE IF req[q].op = "none" THEN req[q]
            ELSE [req[q] EXCEPT !.gh.peers = @ \ {p}]]

Finish(p, status, err, msg, cookies) ==
  req' = [req EXCEPT ![p].pc = "done", ![p].status = status, ![p].err = err,
                     ![p].msg = msg, ![p].cookies = cookies]

\* A response after which nothing of the request is looked at again.
Reply(p, op, status, err, msg, cookies) ==
  req' = [req EXCEPT ![p] = [IdleReq EXCEPT !.op = op, !.pc = "done",
                                            !.status = status, !.err = err,
                                            !.msg = msg,
                                            !.cookies = cookies]]

Goto(p, pc, loc) ==
  req' = [req EXCEPT ![p].pc = pc, ![p].loc = loc]

\* Requests in flight that will still store a refresh token row.
Issuers ==
  {p \in InFlight : req[p].op \in {"login", "refresh", "verify", "oauth"}}

NoGhost == [peers |-> {}]

(***************************************************************************)
(* validatePassword: the password policy of signup and of password reset.  *)
(***************************************************************************)
HasClass(password, class) == \E i \in 1..Len(password) : password[i] = class

\* A policy that lets every password through.
acceptAnyPassword(password) == ""

validatePassword(password) ==
  IF Len(password) < MinPasswordLength
    THEN "Password must be at least 8 characters long"
  ELSE IF ~HasClass(password, "U")
    THEN "Password must contain at least one uppercase letter"
  ELSE IF ~HasClass(password, "L")
    THEN "Password must contain at least one lowercase letter"
  ELSE IF ~HasClass(password, "D")
    THEN "Password must contain at least one number"
  ELSE ""

(***************************************************************************)
(* The clock.  Nothing in the service orders a request against the turn of *)
(* a second.                                                               *)
(***************************************************************************)
Tick ==
  /\ now < MaxTime
  /\ now' = now + 1
  /\ UNCHANGED <<connection, identities, users, emailTokens, refreshTokens, resetTokens,
                 mailQueue, rng, jar, req, hist>>

(***************************************************************************)
(* POST /api/auth/login                                                    *)
(***************************************************************************)
StartLogin(p, email, password) ==
  /\ Startable(p)
  /\ Len(refreshTokens) + Cardinality(Issuers) < MaxRefreshRows
  /\ Begin(p, "login", "login_find",
           [email |-> email, password |-> password], NoGhost)
  /\ UNCHANGED <<connection, identities, now, users, emailTokens, refreshTokens,
                 resetTokens, mailQueue, rng, jar, hist>>

\* authenticateUser with one answer for an unknown email and another for a
\* wrong password.
LoginFindTelling(p) ==
  /\ req[p].pc = "login_find"
  /\ LET u == findUserByEmail(normalizeEmail(req[p].arg.email))
     IN  IF req[p].arg.password = <<>>
           THEN Finish(p, 400, "ValidationError",
                       "Email and password are required", "kept")
         ELSE IF u = 0 \/ users[u].passwordHash = NullHash
           THEN Finish(p, 401, "AuthenticationError", "User not found",
                       "kept")
         ELSE IF ~argon2Verify(users[u].passwordHash, req[p].arg.password)
           THEN Finish(p, 401, "AuthenticationError",
                       "Invalid email or password", "kept")
         ELSE IF ~ALLOW_UNVERIFIED_LOGIN /\ ~users[u].emailVerified
           THEN Finish(p, 401, "AuthenticationError",
                       "Please verify your email address before logging in",
                       "kept")
         ELSE Goto(p, "login_store", [user |-> u])
  /\ UNCHANGED <<connection, identities, now, users, emailTokens, refreshTokens,
                 resetTokens, mailQueue, rng, jar, hist>>

\* authenticateUser without the check of emailVerified.
LoginFindNoGate(p) ==
  /\ req[p].pc = "login_find"
  /\ LET u == findUserByEmail(normalizeEmail(req[p].arg.email))
     IN  IF req[p].arg.password = <<>>
           THEN Finish(p, 400, "ValidationError",
                       "Email and password are required", "kept")
         ELSE IF u = 0 \/ users[u].passwordHash = NullHash
           THEN Finish(p, 401, "AuthenticationError",
                       "Invalid email or password", "kept")
         ELSE IF ~argon2Verify(users[u].passwordHash, req[p].arg.password)
           THEN Finish(p, 401, "AuthenticationError",
                       "Invalid email or password", "kept")
         ELSE Goto(p, "login_store", [user |-> u])
  /\ UNCHANGED <<connection, identities, now, users, emailTokens, refreshTokens,
                 resetTokens, mailQueue, rng, jar, hist>>

\* authenticateUser: the check of the fields, findUnique, argon2.verify, the
\* verified-email gate
LoginFind(p) ==
  /\ req[p].pc = "login_find"
  /\ LET u == findUserByEmail(normalizeEmail(req[p].arg.email))
     IN  IF req[p].arg.password = <<>>
           THEN Finish(p, 400, "ValidationError",
                       "Email and password are required", "kept")
         ELSE IF u = 0 \/ users[u].passwordHash = NullHash
           THEN Finish(p, 401, "AuthenticationError",
                       "Invalid email or password", "kept")
         ELSE IF ~argon2Verify(users[u].passwordHash, req[p].arg.password)
           THEN Finish(p, 401, "AuthenticationError",
                       "Invalid email or password", "kept")
         ELSE IF ~ALLOW_UNVERIFIED_LOGIN /\ ~users[u].emailVerified
           THEN Finish(p, 401, "AuthenticationError",
                       "Please verify your email address before logging in",
                       "kept")
         ELSE Goto(p, "login_store", [user |-> u])
  /\ UNCHANGED <<connection, identities, now, users, emailTokens, refreshTokens,
                 resetTokens, mailQueue, rng, jar, hist>>

\* createRefreshToken, hashToken, storeRefreshToken, setAuthCookies
LoginStore(p) ==
  /\ req[p].pc = "login_store"
  /\ LET u == req[p].loc.user
         token == createRefreshToken(u, now)
     IN  /\ refreshTokens' =
              storeRefreshToken(u, hashToken(token),
                                now + RefreshRowDays * SecondsPerDay)
         /\ jar' = jar \cup {token}
  /\ Finish(p, 200, "", "Login successful", "set")
  /\ UNCHANGED <<connection, identities, now, users, emailTokens, resetTokens, mailQueue,
                 rng, hist>>

(***************************************************************************)
(* POST /api/auth/refresh                                                  *)
(***************************************************************************)
StartRefresh(p, token) ==
  /\ Startable(p)
  /\ Len(refreshTokens) + Cardinality(Issuers) < MaxRefreshRows
  /\ Begin(p, "refresh", "refresh_lookup", [token |-> token],
           [peers |-> {}, t0 |-> now,
            rotated |-> token \in hist.rotated,
            preReset |-> token \in hist.preReset,
            loggedOut |-> token \in hist.loggedOut,
            storeFailed |-> token \in hist.storeFailed])
  /\ UNCHANGED <<connection, identities, now, users, emailTokens, refreshTokens,
                 resetTokens, mailQueue, rng, jar, hist>>

\* POST /refresh that leaves the cookies when no row matches.
RefreshLookupKeepsCookies(p) ==
  /\ req[p].pc = "refresh_lookup"
  /\ LET token == req[p].arg.token
         row == findValidRefreshToken(hashToken(token), now)
     IN  IF token = NoToken
           THEN Finish(p, 401, "AuthenticationError",
                       "Refresh token not found", "kept")
         ELSE IF ~verifyJWT(token, now) \/ token.type # "refresh"
           THEN Finish(p, 401, "AuthenticationError",
                       "Invalid or expired refresh token", "cleared")
         ELSE IF row = 0
           THEN Finish(p, 401, "AuthenticationError",
                       "Invalid or expired refresh token", "kept")
         ELSE Goto(p, "refresh_revoke",
                   [user |-> refreshTokens[row].userId, row |-> row])
  /\ UNCHANGED <<connection, identities, now, users, emailTokens, refreshTokens,
                 resetTokens, mailQueue, rng, jar, hist>>

\* verifyJWT and its type check, then verifyRefreshToken
RefreshLookup(p) ==
  /\ req[p].pc = "refresh_lookup"
  /\ LET token == req[p].arg.token
         row == findValidRefreshToken(hashToken(token), now)
     IN  IF token = NoToken
           THEN Finish(p, 401, "AuthenticationError",
                       "Refresh token not found", "kept")
         ELSE IF ~verifyJWT(token, now) \/ token.type # "refresh"
           THEN Finish(p, 401, "AuthenticationError",
                       "Invalid or expired refresh token", "cleared")
         ELSE IF row = 0
           THEN Finish(p, 401, "AuthenticationError",
                       "Invalid or expired refresh token", "cleared")
         ELSE Goto(p, "refresh_revoke",
                   [user |-> refreshTokens[row].userId, row |-> row])
  /\ UNCHANGED <<connection, identities, now, users, emailTokens, refreshTokens,
                 resetTokens, mailQueue, rng, jar, hist>>

\* A rotation that goes on to the new pair without revoking anything.
RefreshRevokeNothing(p) ==
  /\ req[p].pc = "refresh_revoke"
  /\ Goto(p, "refresh_store", req[p].loc)
  /\ UNCHANGED <<connection, identities, now, users, emailTokens, refreshTokens,
                 resetTokens, mailQueue, rng, jar, hist>>

\* revokeRefreshToken(refreshTokenHash)
RefreshRevoke(p) ==
  /\ req[p].pc = "refresh_revoke"
  /\ refreshTokens' = revokeRefreshToken(hashToken(req[p].arg.token), now)
  /\ Goto(p, "refresh_store", req[p].loc)
  /\ UNCHANGED <<connection, identities, now, users, emailTokens, resetTokens, mailQueue,
                 rng, jar, hist>>

\* createRefreshToken, hashToken, storeRefreshToken, setAuthCookies
RefreshStore(p) ==
  /\ req[p].pc = "refresh_store"
  /\ LET u == req[p].loc.user
         token == createRefreshToken(u, now)
     IN  /\ refreshTokens' =
              storeRefreshToken(u, hashToken(token),
                                now + RefreshRowDays * SecondsPerDay)
         /\ jar' = jar \cup {token}
  /\ hist' = [hist EXCEPT !.rotated = @ \cup {req[p].arg.token}]
  /\ Finish(p, 200, "", "Token refreshed successfully", "set")
  /\ UNCHANGED <<connection, identities, now, users, emailTokens, resetTokens, mailQueue,
                 rng>>

(***************************************************************************)
(* POST /api/auth/logout                                                   *)
(***************************************************************************)
StartLogout(p, token) ==
  /\ Startable(p)
  /\ Begin(p, "logout", "logout_revoke", [token |-> token],
           [peers |-> {}, loggedOut |-> token \in hist.loggedOut])
  /\ UNCHANGED <<connection, identities, now, users, emailTokens, refreshTokens,
                 resetTokens, mailQueue, rng, jar, hist>>

\* revokeRefreshToken(hashToken(refreshToken)) if the cookie is there,
\* clearAuthCookies
LogoutRevoke(p) ==
  /\ req[p].pc = "logout_revoke"
  /\ LET token == req[p].arg.token
     IN  IF token = NoToken
           THEN UNCHANGED <<refreshTokens, hist>>
         ELSE /\ refreshTokens' = revokeRefreshToken(hashToken(token), now)
              /\ hist' = [hist EXCEPT !.loggedOut = @ \cup {token}]
  /\ Finish(p, 200, "", "Logged out successfully", "cleared")
  /\ UNCHANGED <<connection, identities, now, users, emailTokens, resetTokens, mailQueue,
                 rng, jar>>

(***************************************************************************)
(* GET /api/auth/me                                                        *)
(***************************************************************************)
StartMe(p, token) ==
  /\ Startable(p)
  /\ Begin(p, "me", "me_verify", [token |-> token], NoGhost)
  /\ UNCHANGED <<connection, identities, now, users, emailTokens, refreshTokens,
                 resetTokens, mailQueue, rng, jar, hist>>

\* GET /me without the check of the token's type.
MeVerifyAnyKind(p) ==
  /\ req[p].pc = "me_verify"
  /\ LET token == req[p].arg.token
     IN  IF token = NoToken
           THEN Reply(p, "me", 401, "AuthenticationError",
                      "Not authenticated", "kept")
         ELSE IF ~verifyJWT(token, now)
           THEN Reply(p, "me", 401, "AuthenticationError",
                      "Invalid or expired token", "kept")
         ELSE Reply(p, "me", 200, "", "user", "kept")
  /\ UNCHANGED <<connection, identities, now, users, emailTokens, refreshTokens,
                 resetTokens, mailQueue, rng, jar, hist>>

\* verifyJWT and its type check
MeVerify(p) ==
  /\ req[p].pc = "me_verify"
  /\ LET token == req[p].arg.token
     IN  IF token = NoToken
           THEN Reply(p, "me", 401, "AuthenticationError", "Not authenticated",
                       "kept")
         ELSE IF ~verifyJWT(token, now) \/ token.type # "access"
           THEN Reply(p, "me", 401, "AuthenticationError",
                       "Invalid or expired token", "kept")
         ELSE Reply(p, "me", 200, "", "user", "kept")
  /\ UNCHANGED <<connection, identities, now, users, emailTokens, refreshTokens,
                 resetTokens, mailQueue, rng, jar, hist>>

(***************************************************************************)
(* The authenticate middleware, in front of a protected route.             *)
(***************************************************************************)
StartProtected(p, token) ==
  /\ Startable(p)
  /\ Begin(p, "protected", "protected_auth", [token |-> token], NoGhost)
  /\ UNCHANGED <<connection, identities, now, users, emailTokens, refreshTokens,
                 resetTokens, mailQueue, rng, jar, hist>>

\* verifyToken and its type check, prisma.user.findUnique, next()
AuthenticateToken(p) ==
  /\ req[p].pc = "protected_auth"
  /\ LET token == req[p].arg.token
     IN  IF token = NoToken
           THEN Reply(p, "protected", 401, "AuthenticationError", "Not authenticated",
                       "kept")
         ELSE IF ~verifyJWT(token, now) \/ token.type # "access"
           THEN Reply(p, "protected", 401, "AuthenticationError",
                       "Invalid or expired token", "kept")
         ELSE IF token.userId \notin Rows(users)
           THEN Reply(p, "protected", 401, "AuthenticationError", "User not found",
                       "kept")
         ELSE Reply(p, "protected", 200, "", "next", "kept")
  /\ UNCHANGED <<connection, identities, now, users, emailTokens, refreshTokens,
                 resetTokens, mailQueue, rng, jar, hist>>

(***************************************************************************)
(* requestPasswordReset                                                    *)
(***************************************************************************)
ResetGenericMessage ==
  "If an account exists with this email, a password reset link has been sent"

StartRequestReset(p, email) ==
  /\ Startable(p)
  /\ Len(resetTokens)
       + Cardinality({q \in InFlight : req[q].op = "requestReset"})
       < MaxResetRows
  /\ Begin(p, "requestReset", "request_reset_find", [email |-> email],
           NoGhost)
  /\ UNCHANGED <<connection, identities, now, users, emailTokens, refreshTokens,
                 resetTokens, mailQueue, rng, jar, hist>>

\* requestPasswordReset that reports an unknown email.
RequestResetFindTelling(p) ==
  /\ req[p].pc = "request_reset_find"
  /\ LET u == findUserByEmail(normalizeEmail(req[p].arg.email))
     IN  IF u = 0
           THEN Finish(p, 404, "NotFoundError", "User not found", "kept")
         ELSE IF users[u].passwordHash = NullHash
           THEN Finish(p, 200, "", ResetGenericMessage, "kept")
         ELSE Goto(p, "request_reset_create", [user |-> u])
  /\ UNCHANGED <<connection, identities, now, users, emailTokens, refreshTokens,
                 resetTokens, mailQueue, rng, jar, hist>>

\* requestPasswordReset: findUnique
RequestResetFind(p) ==
  /\ req[p].pc = "request_reset_find"
  /\ LET u == findUserByEmail(normalizeEmail(req[p].arg.email))
     IN  IF u = 0 \/ users[u].passwordHash = NullHash
           THEN Finish(p, 200, "", ResetGenericMessage, "kept")
         ELSE Goto(p, "request_reset_create", [user |-> u])
  /\ UNCHANGED <<connection, identities, now, users, emailTokens, refreshTokens,
                 resetTokens, mailQueue, rng, jar, hist>>

\* generateTokenPair, passwordResetToken.create, emailQueue.add
RequestResetCreate(p) ==
  /\ req[p].pc = "request_reset_create"
  /\ LET u == req[p].loc.user
         token == generateToken(rng + 1)
     IN  /\ rng' = rng + 1
         /\ resetTokens' =
              Append(resetTokens,
                     [userId |-> u, tokenHash |-> hashToken(token),
                      used |-> FALSE,
                      expiresAt |-> now + ResetTokenHours * SecondsPerHour])
         /\ mailQueue' =
              Append(mailQueue,
                     [type |-> "sendPasswordReset", userId |-> u,
                      email |-> users[u].email, token |-> token])
  /\ Finish(p, 200, "", ResetGenericMessage, "kept")
  /\ UNCHANGED <<connection, identities, now, users, emailTokens, refreshTokens, jar,
                 hist>>

\* passwordResetToken.create, then emailQueue.add throws: logged, the same
\* message is returned
RequestResetMailFails(p) ==
  /\ req[p].pc = "request_reset_create"
  /\ LET u == req[p].loc.user
         token == generateToken(rng + 1)
     IN  /\ rng' = rng + 1
         /\ resetTokens' =
              Append(resetTokens,
                     [userId |-> u, tokenHash |-> hashToken(token),
                      used |-> FALSE,
                      expiresAt |-> now + ResetTokenHours * SecondsPerHour])
  /\ Finish(p, 200, "", ResetGenericMessage, "kept")
  /\ UNCHANGED <<connection, identities, now, users, emailTokens, refreshTokens,
                 mailQueue, jar, hist>>

(***************************************************************************)
(* resetPassword                                                           *)
(***************************************************************************)
MailedTokens(type) ==
  {mailQueue[i].token : i \in {j \in Rows(mailQueue) : mailQueue[j].type = type}}

StartReset(p, token, newPassword) ==
  /\ Startable(p)
  /\ token \in MailedTokens("sendPasswordReset")
  /\ Begin(p, "reset", "reset_lookup",
           [token |-> token, newPassword |-> newPassword],
           [peers |-> {}, rowsAtStart |-> Len(refreshTokens),
            committed |-> FALSE])
  /\ UNCHANGED <<connection, identities, now, users, emailTokens, refreshTokens,
                 resetTokens, mailQueue, rng, jar, hist>>

\* validatePassword, then verifyPasswordResetToken
ResetLookup(p) ==
  /\ req[p].pc = "reset_lookup"
  /\ LET row == findValidResetToken(hashToken(req[p].arg.token), now)
         policy == validatePassword(req[p].arg.newPassword)
     IN  IF req[p].arg.newPassword = <<>>
           THEN Finish(p, 400, "ValidationError",
                       "Token and new password are required", "kept")
         ELSE IF policy # ""
           THEN Finish(p, 400, "ValidationError", policy, "kept")
         ELSE IF row = 0
           THEN Finish(p, 404, "NotFoundError",
                       "Invalid or expired reset token", "kept")
         ELSE Goto(p, "reset_tx",
                   [user |-> resetTokens[row].userId, row |-> row])
  /\ UNCHANGED <<connection, identities, now, users, emailTokens, refreshTokens,
                 resetTokens, mailQueue, rng, jar, hist>>

\* prisma.$transaction: passwordResetToken.update(used), user.update(hash)
ResetTx(p) ==
  /\ req[p].pc = "reset_tx"
  /\ resetTokens' = [resetTokens EXCEPT ![req[p].loc.row].used = TRUE]
  /\ users' = [users EXCEPT ![req[p].loc.user].passwordHash =
                              argon2Hash(req[p].arg.newPassword)]
  /\ req' = [req EXCEPT ![p].pc = "reset_revoke", ![p].gh.committed = TRUE]
  /\ UNCHANGED <<connection, identities, now, emailTokens, refreshTokens, mailQueue, rng,
                 jar, hist>>

\* Tokens of the user's rows that were stored before the reset was called.
TokensBefore(userId, n) ==
  {refreshTokens[i].tokenHash[2] :
     i \in {j \in Rows(refreshTokens) :
              j <= n /\ refreshTokens[j].userId = userId}}

\* prisma.refreshToken.updateMany({userId, revoked: false} -> revoked)
ResetRevokeAll(p) ==
  /\ req[p].pc = "reset_revoke"
  /\ refreshTokens' = revokeAllUserRefreshTokens(req[p].loc.user, now)
  /\ hist' = [hist EXCEPT !.preReset =
                @ \cup TokensBefore(req[p].loc.user, req[p].gh.rowsAtStart)]
  /\ Finish(p, 200, "",
            "Password has been reset successfully. Please log in with your new password.",
            "kept")
  /\ UNCHANGED <<connection, identities, now, users, emailTokens, resetTokens, mailQueue,
                 rng, jar>>

\* The same statement rejected by the store (connection lost, timeout): the
\* transaction before it has committed and stays committed.
ResetRevokeAllFails(p) ==
  /\ req[p].pc = "reset_revoke"
  /\ Finish(p, 500, "InternalError", "Internal server error", "kept")
  /\ UNCHANGED <<connection, identities, now, users, emailTokens, refreshTokens,
                 resetTokens, mailQueue, rng, jar, hist>>

(***************************************************************************)
(* Sessions: one verified user with a password, who logs in, rotates       *)
(* refresh tokens and resets the password.                                 *)
(***************************************************************************)
Alice == Email("alice", FALSE, FALSE)

VerifiedUser(email, password) ==
  [email |-> email, passwordHash |-> argon2Hash(password),
   emailVerified |-> TRUE, role |-> "USER"]

NoHistory ==
  [rotated |-> {}, preReset |-> {}, consumed |-> {}, loggedOut |-> {},
   storeFailed |-> {}]

InitSession ==
  /\ isConnected = FALSE
  /\ connectionAttempts = 0
  /\ now = 0
  /\ users = <<VerifiedUser(Alice, PwA)>>
  /\ emailTokens = <<>>
  /\ refreshTokens = <<>>
  /\ resetTokens = <<>>
  /\ identities = <<>>
  /\ mailQueue = <<>>
  /\ rng = 0
  /\ jar = {}
  /\ req = [p \in Slots |-> IdleReq]
  /\ hist = NoHistory

NextSession ==
  \/ Tick
  \/ \E p \in Slots :
       \/ \E pw \in {PwA, PwB} : StartLogin(p, Email("alice", TRUE, FALSE), pw)
       \/ LoginFind(p)
       \/ LoginStore(p)
       \/ \E token \in jar : StartRefresh(p, token)
       \/ RefreshLookup(p)
       \/ RefreshRevoke(p)
       \/ RefreshStore(p)
       \/ StartRequestReset(p, Alice)
       \/ RequestResetFind(p)
       \/ RequestResetCreate(p)
       \/ RequestResetMailFails(p)
       \/ \E token \in MailedTokens("sendPasswordReset") :
            StartReset(p, token, PwB)
       \/ ResetLookup(p)
       \/ ResetTx(p)
       \/ ResetRevokeAll(p)
       \/ ResetRevokeAllFails(p)

SpecSession == InitSession /\ [][NextSession]_vars

(***************************************************************************)
(* Properties of sessions.                                                 *)
(***************************************************************************)
Done(p, op) == req[p].op = op /\ req[p].pc = "done"

Rejected401(p) == req[p].status = 401 /\ req[p].err = "AuthenticationError"

\* Two slots hold requests that were in flight at the same time.
Overlap(p, q) == p # q /\ (p \in req[q].gh.peers \/ q \in req[p].gh.peers)

\* C1: once a POST /refresh presenting refresh token R has succeeded, every
\* POST /refresh that presents R afterwards is rejected with 401
\* AuthenticationError (and so stores no new row).
C1_SequentialRefreshSingleUse ==
  \A p \in Slots :
    (Done(p, "refresh") /\ req[p].gh.rotated) => Rejected401(p)

\* C2: of two POST /refresh requests that present the same refresh token and
\* run concurrently, at most one receives a new token pair.  (The requests
\* are taken after the second the token was made in, so that the token they
\* are answered with is never the token they presented.)
C2_ConcurrentRefreshOneWinner ==
  \A p, q \in Slots :
    ( /\ Overlap(p, q)
      /\ Done(p, "refresh") /\ Done(q, "refresh")
      /\ req[p].arg.token = req[q].arg.token
      /\ req[p].gh.t0 > req[p].arg.token.iat
      /\ req[q].gh.t0 > req[q].arg.token.iat )
    => ~(req[p].status = 200 /\ req[q].status = 200)

\* C5: after resetPassword has returned success for a user, every refresh
\* token row of that user that existed before the call is revoked, and a
\* POST /refresh presenting a refresh token issued to the user before the
\* reset is rejected with 401.
C5_ResetRevokesEarlierSessions ==
  /\ \A p \in Slots :
       (Done(p, "reset") /\ req[p].status = 200) =>
         \A i \in Rows(refreshTokens) :
           (i <= req[p].gh.rowsAtStart
              /\ refreshTokens[i].userId = req[p].loc.user)
           => refreshTokens[i].revoked
  /\ \A p \in Slots :
       (Done(p, "refresh") /\ req[p].gh.preReset) => Rejected401(p)

\* C6: resetPassword marks the reset token used, replaces the password hash
\* and revokes the user's refresh tokens as one atomic unit: in no state is
\* the token used and the password replaced while a refresh token row of the
\* user that existed before the reset is still not revoked.
C6_ResetIsOneAtomicUnit ==
  \A p \in Slots :
    (req[p].op = "reset" /\ req[p].gh.committed) =>
      \A i \in Rows(refreshTokens) :
        (i <= req[p].gh.rowsAtStart
           /\ refreshTokens[i].userId = req[p].loc.user)
        => refreshTokens[i].revoked

(***************************************************************************)
(* Errors of the store, as the central error handler answers them.         *)
(***************************************************************************)
mapPrismaError(code) ==
  IF code = "P2002"
    THEN [status |-> 409, err |-> "ConflictError",
          msg |-> "A user with this email already exists"]
  ELSE IF code = "P2025"
    THEN [status |-> 404, err |-> "NotFoundError", msg |-> "Resource not found"]
  ELSE [status |-> 500, err |-> "InternalError", msg |-> "Internal server error"]

Fail(p, code) ==
  LET e == mapPrismaError(code) IN Finish(p, e.status, e.err, e.msg, "kept")

\* A users table without the unique index.
NoEmailKey(email) == FALSE

\* CREATE UNIQUE INDEX "users_email_key" ON "users"("email")
UsersEmailKeyViolated(email) == \E i \in Rows(users) : users[i].email = email

\* An identities table without the unique index.
NoIdentitiesKey(provider, providerUserId) == FALSE

\* CREATE UNIQUE INDEX "identities_provider_providerUserId_key"
IdentitiesKeyViolated(provider, providerUserId) ==
  \E i \in Rows(identities) :
    /\ identities[i].provider = provider
    /\ identities[i].providerUserId = providerUserId

\* Requests in flight that may still insert a users row.
Creators == {p \in InFlight : req[p].op \in {"signup", "oauth"}}

(***************************************************************************)
(* POST /api/auth/signup                                                   *)
(***************************************************************************)
\* /^[^\s@]+@[^\s@]+\.[^\s@]+$/ on the email as typed
isValidEmail(email) == ~email.pad

StartSignup(p, email, password) ==
  /\ Startable(p)
  /\ Len(users) + Cardinality(Creators) < MaxUsers
  /\ Begin(p, "signup", "signup_find",
           [email |-> email, password |-> password], NoGhost)
  /\ UNCHANGED <<connection, identities, now, users, emailTokens, refreshTokens,
                 resetTokens, mailQueue, rng, jar, hist>>

\* createUser: validation, then prisma.user.findUnique
SignupFind(p) ==
  /\ req[p].pc = "signup_find"
  /\ LET email == req[p].arg.email
         policy == validatePassword(req[p].arg.password)
     IN  IF ~isValidEmail(email)
           THEN Finish(p, 400, "ValidationError", "Invalid email format",
                       "kept")
         ELSE IF policy # ""
           THEN Finish(p, 400, "ValidationError", policy, "kept")
         ELSE IF findUserByEmail(normalizeEmail(email)) # 0
           THEN Finish(p, 409, "ConflictError",
                       "A user with this email already exists", "kept")
         ELSE Goto(p, "signup_tx", [checked |-> TRUE])
  /\ UNCHANGED <<connection, identities, now, users, emailTokens, refreshTokens,
                 resetTokens, mailQueue, rng, jar, hist>>

\* argon2.hash, generateTokenPair, prisma.$transaction(user.create,
\* emailToken.create)
SignupTx(p) ==
  /\ req[p].pc = "signup_tx"
  /\ LET email == normalizeEmail(req[p].arg.email)
         token == generateToken(rng + 1)
         id == Len(users) + 1
     IN  IF UsersEmailKeyViolated(email)
           THEN /\ Fail(p, "P2002")
                /\ UNCHANGED <<users, emailTokens, rng>>
         ELSE /\ rng' = rng + 1
              /\ users' =
                   Append(users,
                          [email |-> email,
                           passwordHash |-> argon2Hash(req[p].arg.password),
                           emailVerified |-> FALSE, role |-> "USER"])
              /\ emailTokens' =
                   Append(emailTokens,
                          [userId |-> id, tokenHash |-> hashToken(token),
                           used |-> FALSE,
                           expiresAt |-> now + EMAIL_TOKEN_EXPIRY_HOURS
                                                 * SecondsPerHour])
              /\ Goto(p, "signup_mail", [user |-> id, token |-> token])
  /\ UNCHANGED <<connection, identities, now, refreshTokens, resetTokens, mailQueue, jar,
                 hist>>

\* The transaction rejected by the store: it is rolled back as a whole.
SignupTxFails(p) ==
  /\ req[p].pc = "signup_tx"
  /\ Fail(p, "P1001")
  /\ UNCHANGED <<connection, identities, now, users, emailTokens, refreshTokens,
                 resetTokens, mailQueue, rng, jar, hist>>

\* emailQueue.add('sendVerification', {..., token})
SignupMail(p) ==
  /\ req[p].pc = "signup_mail"
  /\ mailQueue' =
       Append(mailQueue,
              [type |-> "sendVerification", userId |-> req[p].loc.user,
               email |-> users[req[p].loc.user].email,
               token |-> req[p].loc.token])
  /\ Finish(p, 201, "",
            "Account created successfully. Please check your email to verify your account.",
            "kept")
  /\ UNCHANGED <<connection, identities, now, users, emailTokens, refreshTokens,
                 resetTokens, rng, jar, hist>>

\* emailQueue.add throws: logged, the signup still answers 201
SignupMailFails(p) ==
  /\ req[p].pc = "signup_mail"
  /\ Finish(p, 201, "",
            "Account created successfully. Please check your email to verify your account.",
            "kept")
  /\ UNCHANGED <<connection, identities, now, users, emailTokens, refreshTokens,
                 resetTokens, mailQueue, rng, jar, hist>>

(***************************************************************************)
(* GET /api/auth/verify                                                    *)
(***************************************************************************)
\* A lookup that does not filter on used.
findEmailTokenAnyUse(tokenHash, t) ==
  LET hits == {i \in Rows(emailTokens) :
                 /\ emailTokens[i].tokenHash = tokenHash
                 /\ emailTokens[i].expiresAt > t}
  IN  IF hits = {} THEN 0 ELSE CHOOSE i \in hits : \A j \in hits : i <= j

\* A lookup that does not filter on expiresAt.
findEmailTokenAnyAge(tokenHash, t) ==
  LET hits == {i \in Rows(emailTokens) :
                 /\ emailTokens[i].tokenHash = tokenHash
                 /\ ~emailTokens[i].used}
  IN  IF hits = {} THEN 0 ELSE CHOOSE i \in hits : \A j \in hits : i <= j

\* prisma.emailToken.findFirst({tokenHash, used: false, expiresAt > now})
findValidEmailToken(tokenHash, t) ==
  LET hits == {i \in Rows(emailTokens) :
                 /\ emailTokens[i].tokenHash = tokenHash
                 /\ ~emailTokens[i].used
                 /\ emailTokens[i].expiresAt > t}
  IN  IF hits = {} THEN 0 ELSE CHOOSE i \in hits : \A j \in hits : i <= j

StartVerify(p, token) ==
  /\ Startable(p)
  /\ Len(refreshTokens) + Cardinality(Issuers) < MaxRefreshRows
  /\ Begin(p, "verify", "verify_find", [token |-> token],
           [peers |-> {}, consumed |-> token \in hist.consumed])
  /\ UNCHANGED <<connection, identities, now, users, emailTokens, refreshTokens,
                 resetTokens, mailQueue, rng, jar, hist>>

VerifyFind(p) ==
  /\ req[p].pc = "verify_find"
  /\ LET row == findValidEmailToken(hashToken(req[p].arg.token), now)
     IN  IF row = 0
           THEN Finish(p, 404, "NotFoundError",
                       "Invalid or expired verification token", "kept")
         ELSE Goto(p, "verify_tx",
                   [row |-> row, user |-> emailTokens[row].userId])
  /\ UNCHANGED <<connection, identities, now, users, emailTokens, refreshTokens,
                 resetTokens, mailQueue, rng, jar, hist>>

\* A consumption that marks the token and leaves the user as it was.
VerifyTxTokenOnly(p) ==
  /\ req[p].pc = "verify_tx"
  /\ emailTokens' = [emailTokens EXCEPT ![req[p].loc.row].used = TRUE]
  /\ hist' = [hist EXCEPT !.consumed = @ \cup {req[p].arg.token}]
  /\ Goto(p, "verify_store", req[p].loc)
  /\ UNCHANGED <<connection, identities, now, users, refreshTokens, resetTokens,
                 mailQueue, rng, jar>>

\* prisma.$transaction(emailToken.update(used), user.update(emailVerified))
VerifyTx(p) ==
  /\ req[p].pc = "verify_tx"
  /\ emailTokens' = [emailTokens EXCEPT ![req[p].loc.row].used = TRUE]
  /\ users' = [users EXCEPT ![req[p].loc.user].emailVerified = TRUE]
  /\ hist' = [hist EXCEPT !.consumed = @ \cup {req[p].arg.token}]
  /\ Goto(p, "verify_store", req[p].loc)
  /\ UNCHANGED <<connection, identities, now, refreshTokens, resetTokens, mailQueue, rng,
                 jar>>

VerifyTxFails(p) ==
  /\ req[p].pc = "verify_tx"
  /\ Fail(p, "P1001")
  /\ UNCHANGED <<connection, identities, now, users, emailTokens, refreshTokens,
                 resetTokens, mailQueue, rng, jar, hist>>

\* createRefreshToken, hashToken, storeRefreshToken, setAuthCookies
VerifyStore(p) ==
  /\ req[p].pc = "verify_store"
  /\ LET u == req[p].loc.user
         token == createRefreshToken(u, now)
     IN  /\ refreshTokens' =
              storeRefreshToken(u, hashToken(token),
                                now + RefreshRowDays * SecondsPerDay)
         /\ jar' = jar \cup {token}
  /\ Finish(p, 200, "", "Email verified successfully. You are now logged in.",
            "set")
  /\ UNCHANGED <<connection, identities, now, users, emailTokens, resetTokens, mailQueue,
                 rng, hist>>

(***************************************************************************)
(* lib/encryption.js: AES-256-GCM for the provider tokens kept in identities*)
(* A JavaScript string is a sequence of bits here; null is its own value.  *)
(* The stored blob is iv | tag | ciphertext; the base64 text of it is      *)
(* one-to-one with the three parts, which is how the blob is kept.         *)
(***************************************************************************)
Null == [type |-> "null"]
EmptyObject == [type |-> "object"]
Str(chars) == [type |-> "string", chars |-> chars]
Blob(iv, tag, ciphertext) ==
  [type |-> "blob", iv |-> iv, tag |-> tag, ciphertext |-> ciphertext]
DecryptionFailed == [type |-> "error", message |->
                       "Decryption failed - data may be corrupted or tampered with"]

\* !value of JavaScript: null and the empty string are falsy
Falsy(value) == value = Null \/ value = Str(<<>>)

\* crypto.randomBytes(IV_LENGTH)
IVs == {0, 1}

\* counter mode: bit i of the key stream generated from the nonce
keyStream(iv, i) == (iv + i) % 2

\* cipher.update + cipher.final, and decipher.update + decipher.final
ctr(iv, bits) == [i \in 1..Len(bits) |-> (bits[i] + keyStream(iv, i)) % 2]

\* cipher.getAuthTag(): a collision-free authenticator of nonce and ciphertext
getAuthTag(iv, ciphertext) == <<"gcm", iv, ciphertext>>

encrypt(plaintext, iv) ==
  IF Falsy(plaintext) THEN Null
  ELSE LET ciphertext == ctr(iv, plaintext.chars)
       IN  Blob(iv, getAuthTag(iv, ciphertext), ciphertext)

\* A decrypt that hands the stored value back when it cannot be authenticated.
decryptOrPassThrough(encryptedData) ==
  IF Falsy(encryptedData) THEN Null
  ELSE IF encryptedData.tag # getAuthTag(encryptedData.iv,
                                         encryptedData.ciphertext)
    THEN Str(encryptedData.ciphertext)
  ELSE Str(ctr(encryptedData.iv, encryptedData.ciphertext))

decrypt(encryptedData) ==
  IF Falsy(encryptedData) THEN Null
  ELSE IF encryptedData.tag # getAuthTag(encryptedData.iv,
                                         encryptedData.ciphertext)
    THEN DecryptionFailed
  ELSE Str(ctr(encryptedData.iv, encryptedData.ciphertext))

encryptOAuthToken(token, iv) == encrypt(token, iv)
decryptOAuthToken(encryptedToken) == decrypt(encryptedToken)

(***************************************************************************)
(* OAuth callback: findOrCreateOAuthUser, then handleOAuthSuccess          *)
(***************************************************************************)
findIdentity(provider, providerUserId) ==
  LET hits == {i \in Rows(identities) :
                 /\ identities[i].provider = provider
                 /\ identities[i].providerUserId = providerUserId}
  IN  IF hits = {} THEN 0 ELSE CHOOSE i \in hits : TRUE

\* What the provider hands to the strategy callback besides the profile.
NoGrant == [accessToken |-> Null, refreshToken |-> Null, meta |-> Null]

\* passport hands the error to the error handler, which answers it
OAuthFail(p, code) ==
  LET e == mapPrismaError(code)
  IN  Reply(p, "oauth", e.status, e.err, e.msg, "kept")

\* The passport strategy callback with the provider's profile and grant.
StartOAuthLogin(p, provider, providerUserId, email, grant) ==
  /\ Startable(p)
  /\ Len(refreshTokens) + Cardinality(Issuers) < MaxRefreshRows
  /\ Begin(p, "oauth", "oauth_find",
           [provider |-> provider, providerUserId |-> providerUserId,
            email |-> email, accessToken |-> grant.accessToken,
            refreshToken |-> grant.refreshToken, meta |-> grant.meta],
           NoGhost)
  /\ UNCHANGED <<connection, identities, now, users, emailTokens, refreshTokens,
                 resetTokens, mailQueue, rng, jar, hist>>

StartOAuth(p, provider, providerUserId, email) ==
  /\ Len(users) + Cardinality(Creators) < MaxUsers
  /\ StartOAuthLogin(p, provider, providerUserId, email, NoGrant)

\* prisma.identity.findUnique({provider_providerUserId}); a known identity is
\* updated when a token or metadata came with the login
OAuthFind(p) ==
  /\ req[p].pc = "oauth_find"
  /\ LET row == findIdentity(req[p].arg.provider, req[p].arg.providerUserId)
     IN  IF row = 0 THEN Goto(p, "oauth_tx", NoArg)
         ELSE IF \/ ~Falsy(req[p].arg.accessToken)
                 \/ ~Falsy(req[p].arg.refreshToken)
                 \/ req[p].arg.meta # Null
           THEN Goto(p, "oauth_update", [identity |-> row])
         ELSE Goto(p, "oauth_store", [user |-> identities[row].userId])
  /\ UNCHANGED <<connection, identities, now, users, emailTokens, refreshTokens,
                 resetTokens, mailQueue, rng, jar, hist>>

\* An identity.update that writes both token columns whatever was supplied.
identityUpdateAllColumns(identity, accessToken, refreshToken, meta, ivA, ivR) ==
  [identity EXCEPT
     !.providerMeta = IF meta # Null THEN meta ELSE @,
     !.accessToken = encryptOAuthToken(accessToken, ivA),
     !.refreshToken = encryptOAuthToken(refreshToken, ivR)]

\* updateData of prisma.identity.update({where: {id}}): providerMeta, and the
\* token columns only for the tokens that were supplied
identityUpdate(identity, accessToken, refreshToken, meta, ivA, ivR) ==
  [identity EXCEPT
     !.providerMeta = IF meta # Null THEN meta ELSE @,
     !.accessToken = IF ~Falsy(accessToken)
                     THEN encryptOAuthToken(accessToken, ivA) ELSE @,
     !.refreshToken = IF ~Falsy(refreshToken)
                      THEN encryptOAuthToken(refreshToken, ivR) ELSE @]

OAuthUpdate(p) ==
  /\ req[p].pc = "oauth_update"
  /\ \E ivA, ivR \in IVs :
       LET row == req[p].loc.identity
       IN  /\ identities' =
                [identities EXCEPT
                   ![row] = identityUpdate(@, req[p].arg.accessToken,
                                           req[p].arg.refreshToken,
                                           req[p].arg.meta, ivA, ivR)]
           /\ Goto(p, "oauth_store", [user |-> identities[row].userId])
  /\ UNCHANGED <<connection, now, users, emailTokens, refreshTokens, resetTokens,
                 mailQueue, rng, jar, hist>>

\* A transaction that links a user found by email without marking the email
\* verified.
OAuthTxKeepsUnverified(p) ==
  /\ req[p].pc = "oauth_tx"
  /\ \E ivA, ivR \in IVs :
       LET email == normalizeEmail(req[p].arg.email)
           found == findUserByEmail(email)
           id == IF found = 0 THEN Len(users) + 1 ELSE found
       IN  IF IdentitiesKeyViolated(req[p].arg.provider,
                                    req[p].arg.providerUserId)
             THEN /\ OAuthFail(p, "P2002")
                  /\ UNCHANGED <<users, identities>>
           ELSE /\ users' =
                     IF found = 0
                     THEN Append(users,
                                 [email |-> email, passwordHash |-> NullHash,
                                  emailVerified |-> TRUE, role |-> "USER"])
                     ELSE users
                /\ identities' =
                     Append(identities,
                            [userId |-> id, provider |-> req[p].arg.provider,
                             providerUserId |-> req[p].arg.providerUserId,
                             accessToken |->
                               encryptOAuthToken(req[p].arg.accessToken, ivA),
                             refreshToken |->
                               encryptOAuthToken(req[p].arg.refreshToken, ivR),
                             providerMeta |->
                               IF req[p].arg.meta # Null THEN req[p].arg.meta
                               ELSE EmptyObject])
                /\ Goto(p, "oauth_store", [user |-> id])
  /\ UNCHANGED <<connection, now, emailTokens, refreshTokens, resetTokens, mailQueue,
                 rng, jar, hist>>

\* prisma.$transaction(user.findUnique, user.create | user.update,
\* identity.create)
OAuthTx(p) ==
  /\ req[p].pc = "oauth_tx"
  /\ \E ivA, ivR \in IVs :
       LET email == normalizeEmail(req[p].arg.email)
           found == findUserByEmail(email)
           id == IF found = 0 THEN Len(users) + 1 ELSE found
       IN  IF IdentitiesKeyViolated(req[p].arg.provider,
                                    req[p].arg.providerUserId)
             THEN /\ OAuthFail(p, "P2002")
                  /\ UNCHANGED <<users, identities>>
           ELSE /\ users' =
                     IF found = 0
                     THEN Append(users,
                                 [email |-> email, passwordHash |-> NullHash,
                                  emailVerified |-> TRUE, role |-> "USER"])
                     ELSE [users EXCEPT ![found].emailVerified = TRUE]
                /\ identities' =
                     Append(identities,
                            [userId |-> id, provider |-> req[p].arg.provider,
                             providerUserId |-> req[p].arg.providerUserId,
                             accessToken |->
                               encryptOAuthToken(req[p].arg.accessToken, ivA),
                             refreshToken |->
                               encryptOAuthToken(req[p].arg.refreshToken, ivR),
                             providerMeta |->
                               IF req[p].arg.meta # Null THEN req[p].arg.meta
                               ELSE EmptyObject])
                /\ Goto(p, "oauth_store", [user |-> id])
  /\ UNCHANGED <<connection, now, emailTokens, refreshTokens, resetTokens, mailQueue,
                 rng, jar, hist>>

\* The transaction aborted: a row with the email was committed between its
\* findUnique and its create (P2002); it is rolled back as a whole.
OAuthTxFails(p) ==
  /\ req[p].pc = "oauth_tx"
  /\ OAuthFail(p, "P2002")
  /\ UNCHANGED <<connection, identities, now, users, emailTokens, refreshTokens,
                 resetTokens, mailQueue, rng, jar, hist>>

\* handleOAuthSuccess
OAuthStore(p) ==
  /\ req[p].pc = "oauth_store"
  /\ LET u == req[p].loc.user
         token == createRefreshToken(u, now)
     IN  /\ refreshTokens' =
              storeRefreshToken(u, hashToken(token),
                                now + RefreshRowDays * SecondsPerDay)
         /\ jar' = jar \cup {token}
  /\ Reply(p, "oauth", 302, "", "success=true", "set")
  /\ UNCHANGED <<connection, identities, now, users, emailTokens, resetTokens, mailQueue,
                 rng, hist>>

(***************************************************************************)
(* POST /api/auth/resend-verification                                      *)
(***************************************************************************)
\* Requests in flight that may still insert an email_tokens row.
TokenMakers == {p \in InFlight : req[p].op \in {"signup", "resend"}}

StartResend(p, email) ==
  /\ Startable(p)
  /\ Len(emailTokens) + Cardinality(TokenMakers) < MaxEmailRows
  /\ Begin(p, "resend", "resend_find", [email |-> email], NoGhost)
  /\ UNCHANGED <<connection, identities, now, users, emailTokens, refreshTokens,
                 resetTokens, mailQueue, rng, jar, hist>>

\* resendVerificationEmail: prisma.user.findUnique
ResendFind(p) ==
  /\ req[p].pc = "resend_find"
  /\ LET u == findUserByEmail(normalizeEmail(req[p].arg.email))
     IN  IF u = 0
           THEN Finish(p, 404, "NotFoundError",
                       "If an account exists with this email, a verification email has been sent",
                       "kept")
         ELSE IF users[u].emailVerified
           THEN Finish(p, 409, "ConflictError",
                       "Email address is already verified", "kept")
         ELSE Goto(p, "resend_tx", [user |-> u])
  /\ UNCHANGED <<connection, identities, now, users, emailTokens, refreshTokens,
                 resetTokens, mailQueue, rng, jar, hist>>

\* generateTokenPair, prisma.$transaction(emailToken.create)
ResendTx(p) ==
  /\ req[p].pc = "resend_tx"
  /\ LET token == generateToken(rng + 1)
     IN  /\ rng' = rng + 1
         /\ emailTokens' =
              Append(emailTokens,
                     [userId |-> req[p].loc.user,
                      tokenHash |-> hashToken(token), used |-> FALSE,
                      expiresAt |-> now + EMAIL_TOKEN_EXPIRY_HOURS
                                            * SecondsPerHour])
         /\ Goto(p, "resend_mail", [user |-> req[p].loc.user, token |-> token])
  /\ UNCHANGED <<connection, identities, now, users, refreshTokens, resetTokens, mailQueue,
                 jar, hist>>

ResendTxFails(p) ==
  /\ req[p].pc = "resend_tx"
  /\ Fail(p, "P1001")
  /\ UNCHANGED <<connection, identities, now, users, emailTokens, refreshTokens,
                 resetTokens, mailQueue, rng, jar, hist>>

\* emailQueue.add('sendVerification', {..., token})
ResendMail(p) ==
  /\ req[p].pc = "resend_mail"
  /\ mailQueue' =
       Append(mailQueue,
              [type |-> "sendVerification", userId |-> req[p].loc.user,
               email |-> users[req[p].loc.user].email,
               token |-> req[p].loc.token])
  /\ Finish(p, 200, "",
            "If an account exists with this email, a verification email has been sent",
            "kept")
  /\ UNCHANGED <<connection, identities, now, users, emailTokens, refreshTokens,
                 resetTokens, rng, jar, hist>>

\* emailQueue.add throws: the resend answers 500
ResendMailFails(p) ==
  /\ req[p].pc = "resend_mail"
  /\ Finish(p, 500, "Error",
            "Failed to queue verification email. Please try again later.",
            "kept")
  /\ UNCHANGED <<connection, identities, now, users, emailTokens, refreshTokens,
                 resetTokens, mailQueue, rng, jar, hist>>

(***************************************************************************)
(* Accounts: signups, email verifications and first OAuth logins on an     *)
(* empty store.                                                            *)
(***************************************************************************)
Bob == Email("bob", FALSE, FALSE)
BogusToken == generateToken(0)

InitAccounts ==
  /\ isConnected = FALSE
  /\ connectionAttempts = 0
  /\ now = 0
  /\ users = <<>>
  /\ emailTokens = <<>>
  /\ refreshTokens = <<>>
  /\ resetTokens = <<>>
  /\ identities = <<>>
  /\ mailQueue = <<>>
  /\ rng = 0
  /\ jar = {}
  /\ req = [p \in Slots |-> IdleReq]
  /\ hist = NoHistory

NextAccounts ==
  \E p \in Slots :
    \/ \E email \in {Alice, Email("alice", TRUE, FALSE), Email("bob", FALSE, TRUE)} :
         StartSignup(p, email, PwA)
    \/ SignupFind(p)
    \/ SignupTx(p)
    \/ SignupTxFails(p)
    \/ SignupMail(p)
    \/ SignupMailFails(p)
    \/ StartResend(p, Email("alice", TRUE, TRUE))
    \/ ResendFind(p)
    \/ ResendTx(p)
    \/ ResendTxFails(p)
    \/ ResendMail(p)
    \/ ResendMailFails(p)
    \/ \E token \in MailedTokens("sendVerification") \cup {BogusToken} :
         StartVerify(p, token)
    \/ VerifyFind(p)
    \/ VerifyTx(p)
    \/ VerifyTxFails(p)
    \/ VerifyStore(p)
    \/ \E email \in {Email("alice", TRUE, TRUE), Bob} :
         StartOAuth(p, "google", email.local, email)
    \/ OAuthFind(p)
    \/ OAuthTx(p)
    \/ OAuthTxFails(p)
    \/ OAuthStore(p)

SpecAccounts == InitAccounts /\ [][NextAccounts]_vars

(***************************************************************************)
(* Properties of accounts.                                                 *)
(***************************************************************************)
\* The step is taken by the request in slot p.
Steps(p) == Running(p) /\ req'[p].pc # req[p].pc

\* C3: once verifyEmailToken has succeeded for a token, every later
\* verifyEmailToken of the same token fails with NotFoundError and changes
\* nothing in the store; the used flag of an email token never returns to
\* false.
C3_VerifyTokenSingleUse ==
  /\ [](\A p \in Slots :
          (Done(p, "verify") /\ req[p].gh.consumed) =>
            (req[p].status = 404 /\ req[p].err = "NotFoundError"))
  /\ [][\A p \in Slots :
          (req[p].op = "verify" /\ req[p].gh.consumed /\ Steps(p)) =>
            UNCHANGED db]_vars
  /\ [][\A i \in Rows(emailTokens) :
          emailTokens[i].used => emailTokens'[i].used]_vars

C3_Witness ==
  \E p \in Slots :
    Done(p, "verify") /\ req[p].gh.consumed /\ req[p].status = 404

\* C4: of two requests that consume the same unused, unexpired email
\* verification token concurrently, at most one succeeds.
C4_OneShotTokenOneWinner ==
  \A p, q \in Slots :
    ( /\ Overlap(p, q)
      /\ Done(p, "verify") /\ Done(q, "verify")
      /\ req[p].arg.token = req[q].arg.token )
    => ~(req[p].status = 200 /\ req[q].status = 200)

\* C7: whenever an email verification token row is marked used, the user
\* that owns it is marked emailVerified.
C7_UsedTokenImpliesVerifiedUser ==
  \A i \in Rows(emailTokens) :
    emailTokens[i].used => users[emailTokens[i].userId].emailVerified

C7_Witness == \E i \in Rows(emailTokens) : emailTokens[i].used

\* C8: a signup that commits adds exactly one user row (emailVerified false)
\* and exactly one unused email token row owned by that user, in one step;
\* any other step of a signup adds neither; a signup answered 201 has
\* committed; the value in the token row is the hash of the token and never
\* a token itself, and the token is what the mail job carries.
C8_SignupCreatesUserAndToken ==
  /\ [][\A p \in Slots :
          (req[p].op = "signup" /\ Steps(p)) =>
            IF req'[p].pc = "signup_mail"
            THEN /\ users' =
                      Append(users,
                             [email |-> normalizeEmail(req[p].arg.email),
                              passwordHash |->
                                argon2Hash(req[p].arg.password),
                              emailVerified |-> FALSE, role |-> "USER"])
                 /\ Len(emailTokens') = Len(emailTokens) + 1
                 /\ \A i \in Rows(emailTokens) :
                      emailTokens'[i] = emailTokens[i]
                 /\ LET row == emailTokens'[Len(emailTokens')]
                    IN  /\ row.userId = Len(users')
                        /\ ~row.used
                        /\ row.tokenHash = hashToken(req'[p].loc.token)
            ELSE UNCHANGED <<users, emailTokens>>]_vars
  /\ [](\A p \in Slots :
          (Done(p, "signup") /\ req[p].status = 201) =>
            /\ req[p].loc.user \in Rows(users)
            /\ Cardinality({i \in Rows(emailTokens) :
                              /\ emailTokens[i].userId = req[p].loc.user
                              /\ emailTokens[i].tokenHash =
                                   hashToken(req[p].loc.token)}) = 1)
  /\ [](\A i \in Rows(emailTokens) : \A n \in 0..rng :
          emailTokens[i].tokenHash # generateToken(n))
  /\ [](\A j \in Rows(mailQueue) :
          \E i \in Rows(emailTokens) :
            /\ emailTokens[i].tokenHash = hashToken(mailQueue[j].token)
            /\ emailTokens[i].userId = mailQueue[j].userId)

C8_Witness ==
  \E p \in Slots :
    /\ Done(p, "signup") /\ req[p].status = 201
    /\ \E j \in Rows(mailQueue) : mailQueue[j].token = req[p].loc.token

\* C9: no two users have the same normalized email, and a signup with valid
\* input whose lookup or whose insert meets a user with its email is answered
\* 409 ConflictError (unless the store itself fails) and adds no user row and
\* no email token row.
C9_OneUserPerEmail ==
  /\ [](\A i, j \in Rows(users) :
          normalizeEmail(users[i].email) = normalizeEmail(users[j].email)
            => i = j)
  /\ [][\A p \in Slots :
          ( /\ req[p].op = "signup" /\ Steps(p)
            /\ req[p].pc \in {"signup_find", "signup_tx"}
            /\ isValidEmail(req[p].arg.email)
            /\ validatePassword(req[p].arg.password) = ""
            /\ findUserByEmail(normalizeEmail(req[p].arg.email)) # 0 )
          => /\ req'[p].pc = "done"
             /\ \/ req'[p].status = 409 /\ req'[p].err = "ConflictError"
                \/ req'[p].err = "InternalError"
             /\ UNCHANGED <<users, emailTokens>>]_vars

\* A signup that passed its lookup and lost the race for the email.
C9_Witness ==
  \E p \in Slots :
    /\ Done(p, "signup") /\ req[p].status = 409
    /\ req[p].loc = [checked |-> TRUE]
    /\ Len(users) = 1

(***************************************************************************)
(* PUT /api/auth/admin/users/:userId/role                                  *)
(***************************************************************************)
AdminSlots == 1..NumAdminSlots

\* res.status(...).json(...): the request and its locals end with the
\* response.
Respond(p, status, err, msg) ==
  req' = [req EXCEPT ![p] = [IdleReq EXCEPT !.op = "role", !.pc = "done",
                                            !.status = status, !.err = err,
                                            !.msg = msg]]

validRoles == {"USER", "MANAGER", "ADMIN", "SUPERUSER"}

\* The caller is the userId of the access token in the cookie; 0 stands for
\* a request without a valid access token.
StartUpdateRole(p, caller, targetUserId, newRole) ==
  /\ Startable(p)
  /\ req' = [req EXCEPT ![p] =
                [IdleReq EXCEPT !.op = "role", !.pc = "role_auth",
                                !.arg = [caller |-> caller,
                                         targetUserId |-> targetUserId,
                                         newRole |-> newRole]]]
  /\ UNCHANGED <<connection, identities, now, users, emailTokens, refreshTokens,
                 resetTokens, mailQueue, rng, jar, hist>>

\* The handler without updateUserRole's permission check on the caller's role.
AuthenticateAnyAssigner(p) ==
  /\ req[p].pc = "role_auth"
  /\ LET caller == req[p].arg.caller
         newRole == req[p].arg.newRole
     IN  IF caller = 0
           THEN Respond(p, 401, "AuthenticationError", "Not authenticated")
         ELSE IF caller \notin Rows(users)
           THEN Respond(p, 401, "AuthenticationError", "User not found")
         ELSE IF users[caller].role \notin {"ADMIN", "SUPERUSER"}
           THEN Respond(p, 403, "AuthorizationError",
                       "Insufficient permissions")
         ELSE IF newRole = ""
           THEN Respond(p, 400, "ValidationError", "Role is required")
         ELSE IF newRole \notin validRoles
           THEN Respond(p, 400, "ValidationError",
                       "Invalid role. Must be one of: USER, MANAGER, ADMIN, SUPERUSER")
         ELSE Goto(p, "role_find", [currentUserRole |-> users[caller].role])
  /\ UNCHANGED <<connection, identities, now, users, emailTokens, refreshTokens,
                 resetTokens, mailQueue, rng, jar, hist>>

\* The route without authorize(['ADMIN', 'SUPERUSER']).
AuthenticateOnly(p) ==
  /\ req[p].pc = "role_auth"
  /\ LET caller == req[p].arg.caller
         newRole == req[p].arg.newRole
     IN  IF caller = 0
           THEN Respond(p, 401, "AuthenticationError", "Not authenticated")
         ELSE IF caller \notin Rows(users)
           THEN Respond(p, 401, "AuthenticationError", "User not found")
         ELSE IF newRole = ""
           THEN Respond(p, 400, "ValidationError", "Role is required")
         ELSE IF newRole \notin validRoles
           THEN Respond(p, 400, "ValidationError",
                       "Invalid role. Must be one of: USER, MANAGER, ADMIN, SUPERUSER")
         ELSE IF newRole = "SUPERUSER" /\ users[caller].role # "SUPERUSER"
           THEN Respond(p, 403, "AuthorizationError",
                       "Only superusers can assign the SUPERUSER role")
         ELSE Goto(p, "role_find", [currentUserRole |-> users[caller].role])
  /\ UNCHANGED <<connection, identities, now, users, emailTokens, refreshTokens,
                 resetTokens, mailQueue, rng, jar, hist>>

\* authenticate (prisma.user.findUnique of the caller), authorize(['ADMIN',
\* 'SUPERUSER']), the route's check of the body, and updateUserRole up to its
\* first query: validation and the permission check on the caller's role
Authenticate(p) ==
  /\ req[p].pc = "role_auth"
  /\ LET caller == req[p].arg.caller
         newRole == req[p].arg.newRole
     IN  IF caller = 0
           THEN Respond(p, 401, "AuthenticationError", "Not authenticated")
         ELSE IF caller \notin Rows(users)
           THEN Respond(p, 401, "AuthenticationError", "User not found")
         ELSE IF users[caller].role \notin {"ADMIN", "SUPERUSER"}
           THEN Respond(p, 403, "AuthorizationError",
                       "Insufficient permissions")
         ELSE IF newRole = ""
           THEN Respond(p, 400, "ValidationError", "Role is required")
         ELSE IF newRole \notin validRoles
           THEN Respond(p, 400, "ValidationError",
                       "Invalid role. Must be one of: USER, MANAGER, ADMIN, SUPERUSER")
         ELSE IF newRole = "SUPERUSER" /\ users[caller].role # "SUPERUSER"
           THEN Respond(p, 403, "AuthorizationError",
                       "Only superusers can assign the SUPERUSER role")
         ELSE Goto(p, "role_find", [currentUserRole |-> users[caller].role])
  /\ UNCHANGED <<connection, identities, now, users, emailTokens, refreshTokens,
                 resetTokens, mailQueue, rng, jar, hist>>

\* An updateUserRole that does not compare the target's role with the new one.
RoleFindAllowsSameRole(p) ==
  /\ req[p].pc = "role_find"
  /\ LET target == req[p].arg.targetUserId
         newRole == req[p].arg.newRole
     IN  IF target \notin Rows(users)
           THEN Respond(p, 404, "NotFoundError", "User not found")
         ELSE IF newRole = "SUPERUSER"
           THEN Goto(p, "role_check", req[p].loc)
         ELSE Goto(p, "role_update", req[p].loc)
  /\ UNCHANGED <<connection, identities, now, users, emailTokens, refreshTokens,
                 resetTokens, mailQueue, rng, jar, hist>>

\* updateUserRole: prisma.user.findUnique of the target
RoleFind(p) ==
  /\ req[p].pc = "role_find"
  /\ LET target == req[p].arg.targetUserId
         newRole == req[p].arg.newRole
     IN  IF target \notin Rows(users)
           THEN Respond(p, 404, "NotFoundError", "User not found")
         ELSE IF users[target].role = newRole
           THEN Respond(p, 409, "ConflictError", "User already has the role")
         ELSE IF newRole = "SUPERUSER"
           THEN Goto(p, "role_check", req[p].loc)
         ELSE Goto(p, "role_update", req[p].loc)
  /\ UNCHANGED <<connection, identities, now, users, emailTokens, refreshTokens,
                 resetTokens, mailQueue, rng, jar, hist>>

\* A query that matches no row.
noSuperuser(targetUserId) == FALSE

\* prisma.user.findFirst({role: 'SUPERUSER', id: {not: targetUserId}})
existingSuperuser(targetUserId) ==
  \E i \in Rows(users) : users[i].role = "SUPERUSER" /\ i # targetUserId

RoleCheck(p) ==
  /\ req[p].pc = "role_check"
  /\ IF existingSuperuser(req[p].arg.targetUserId)
       THEN Respond(p, 409, "ConflictError",
                   "A superuser already exists. Only one superuser is allowed.")
     ELSE Goto(p, "role_update", req[p].loc)
  /\ UNCHANGED <<connection, identities, now, users, emailTokens, refreshTokens,
                 resetTokens, mailQueue, rng, jar, hist>>

\* prisma.user.update({where: {id}, data: {role}})
RoleUpdate(p) ==
  /\ req[p].pc = "role_update"
  /\ users' = [users EXCEPT ![req[p].arg.targetUserId].role =
                              req[p].arg.newRole]
  /\ Respond(p, 200, "", "User role updated successfully")
  /\ UNCHANGED <<connection, identities, now, emailTokens, refreshTokens, resetTokens,
                 mailQueue, rng, jar, hist>>

(***************************************************************************)
(* Administration: a superuser and an administrator change roles.          *)
(***************************************************************************)
InitAdmin ==
  /\ isConnected = FALSE
  /\ connectionAttempts = 0
  /\ now = 0
  /\ users = <<[VerifiedUser(Alice, PwA) EXCEPT !.role = "SUPERUSER"],
               [VerifiedUser(Bob, PwA) EXCEPT !.role = "ADMIN"]>>
  /\ emailTokens = <<>>
  /\ refreshTokens = <<>>
  /\ resetTokens = <<>>
  /\ identities = <<>>
  /\ mailQueue = <<>>
  /\ rng = 0
  /\ jar = {}
  /\ req = [p \in AdminSlots |-> IdleReq]
  /\ hist = NoHistory

NextAdmin ==
  \E p \in AdminSlots :
    \/ \E caller \in 0..MaxUsers, target \in 1..MaxUsers,
          newRole \in {"ADMIN", "SUPERUSER"} :
         StartUpdateRole(p, caller, target, newRole)
    \/ Authenticate(p)
    \/ RoleFind(p)
    \/ RoleCheck(p)
    \/ RoleUpdate(p)

SpecAdmin == InitAdmin /\ [][NextAdmin]_vars

\* C10: at most one user has the role SUPERUSER.
C10_AtMostOneSuperuser ==
  Cardinality({i \in Rows(users) : users[i].role = "SUPERUSER"}) <= 1

\* Another user than the target holds SUPERUSER.
OtherHoldsSuperuser(target) ==
  \E i \in Rows(users) : i # target /\ users[i].role = "SUPERUSER"

SuperuserExistsMessage ==
  "A superuser already exists. Only one superuser is allowed."

Carol == Email("carol", FALSE, FALSE)
Dave == Email("dave", FALSE, FALSE)

InitLogin ==
  /\ isConnected = FALSE
  /\ connectionAttempts = 0
  /\ now = 0
  /\ users = <<VerifiedUser(Alice, PwA),
               [VerifiedUser(Bob, PwA) EXCEPT !.passwordHash = NullHash],
               [VerifiedUser(Carol, PwA) EXCEPT !.emailVerified = FALSE]>>
  /\ emailTokens = <<>>
  /\ refreshTokens = <<>>
  /\ resetTokens = <<>>
  /\ identities = <<[userId |-> 2, provider |-> "google",
                     providerUserId |-> "bob", accessToken |-> Null,
                     refreshToken |-> Null, providerMeta |-> EmptyObject]>>
  /\ mailQueue = <<>>
  /\ rng = 0
  /\ jar = {}
  /\ req = [p \in Slots |-> IdleReq]
  /\ hist = NoHistory

NextLogin ==
  \/ Tick
  \/ \E p \in Slots :
       \/ \E email \in {Email("alice", TRUE, FALSE), Bob, Carol, Dave},
             pw \in {PwA, PwB, <<>>} : StartLogin(p, email, pw)
       \/ LoginFind(p)
       \/ LoginStore(p)
       \/ \E email \in {Email("alice", TRUE, TRUE), Bob, Dave} :
            StartRequestReset(p, email)
       \/ RequestResetFind(p)
       \/ RequestResetCreate(p)
       \/ RequestResetMailFails(p)

SpecLogin == InitLogin /\ [][NextLogin]_vars

\* The login names no user, or a user without a password credential.
NoSuchCredential(p) ==
  LET u == findUserByEmail(normalizeEmail(req[p].arg.email))
  IN  u = 0 \/ users[u].passwordHash = NullHash

\* The login names a user with a password credential and gives another
\* password.
WrongPassword(p) ==
  LET u == findUserByEmail(normalizeEmail(req[p].arg.email))
  IN  /\ u # 0
      /\ users[u].passwordHash # NullHash
      /\ ~argon2Verify(users[u].passwordHash, req[p].arg.password)

Response(p) ==
  <<req[p].status, req[p].err, req[p].msg, req[p].cookies>>

\* C13: a login whose email names no user (or an OAuth-only user) and a login
\* with a user's email and a wrong password get the same response, status
\* 401, and neither stores a refresh token.
C13_LoginRejectionsIndistinguishable ==
  /\ [](\A p, q \in Slots :
          ( /\ Done(p, "login") /\ Done(q, "login")
            /\ req[p].arg.password # <<>> /\ req[q].arg.password # <<>>
            /\ NoSuchCredential(p) /\ WrongPassword(q) )
          => Response(p) = Response(q) /\ req[p].status = 401)
  /\ [][\A p \in Slots :
          ( /\ req[p].op = "login" /\ Steps(p)
            /\ NoSuchCredential(p) \/ WrongPassword(p) )
          => /\ UNCHANGED refreshTokens
             /\ req'[p].pc = "done" /\ req'[p].cookies = "kept"]_vars

C13_Witness ==
  \E p, q \in Slots :
    /\ Done(p, "login") /\ Done(q, "login")
    /\ req[p].arg.password # <<>> /\ req[q].arg.password # <<>>
    /\ NoSuchCredential(p) /\ WrongPassword(q)
    /\ users[findUserByEmail(normalizeEmail(req[p].arg.email))].passwordHash
         = NullHash

\* C18: with ALLOW_UNVERIFIED_LOGIN false, a login with the right password of
\* a user whose emailVerified is false is answered AuthenticationError (401),
\* sets no cookies and stores no refresh token row.
C18_UnverifiedLoginRejected ==
  [][\A p \in Slots :
       LET u == findUserByEmail(normalizeEmail(req[p].arg.email))
       IN  ( /\ req[p].op = "login" /\ Steps(p)
             /\ u # 0
             /\ argon2Verify(users[u].passwordHash, req[p].arg.password)
             /\ ~users[u].emailVerified )
           => /\ req'[p].pc = "done"
              /\ req'[p].status = 401
              /\ req'[p].err = "AuthenticationError"
              /\ req'[p].cookies = "kept"
              /\ UNCHANGED <<refreshTokens, jar>>]_vars

C18_Witness ==
  \E p \in Slots :
    /\ Done(p, "login") /\ req[p].arg.email = Carol /\ req[p].arg.password = PwA
    /\ req[p].status = 401

\* C14: requestPasswordReset gives the same status and the same message for
\* an email without an account, for an OAuth-only account and for an account
\* with a password, also when the reset mail could not be enqueued.
C14_ResetRequestIndistinguishable ==
  /\ [](\A p, q \in Slots :
          (Done(p, "requestReset") /\ Done(q, "requestReset"))
            => Response(p) = Response(q))
  /\ [](\A p \in Slots :
          Done(p, "requestReset") =>
            req[p].status = 200 /\ req[p].msg = ResetGenericMessage)

\* A request for an unknown email and one for an account with a password
\* whose mail could not be enqueued have both been answered.
C14_Witness ==
  \E p, q \in Slots :
    /\ Done(p, "requestReset") /\ Done(q, "requestReset")
    /\ findUserByEmail(normalizeEmail(req[p].arg.email)) = 0
    /\ findUserByEmail(normalizeEmail(req[q].arg.email)) = 1
    /\ Len(resetTokens) = 1 /\ mailQueue = <<>>

ResendGenericMessage ==
  "If an account exists with this email, a verification email has been sent"

\* C15: POST /resend-verification gives the same generic success response
\* (status 200, the generic text) whether the email belongs to no user, to a
\* verified user or to an unverified user.
C15_ResendIndistinguishable ==
  \A p \in Slots :
    (Done(p, "resend") /\ req[p].status # 500) =>
      (req[p].status = 200 /\ req[p].msg = ResendGenericMessage)

(***************************************************************************)
(* Cookies: one verified user who logs in, presents tokens of either kind  *)
(* to /refresh, /me and a protected route, and logs out.                   *)
(***************************************************************************)
\* The access tokens set in cookies along with the refresh tokens.
AccessTokens ==
  {createAccessToken(r.userId, users[r.userId].email, r.iat) : r \in jar}

\* A refresh token of the user that jwtVerify rejects: it expired at time 0.
ExpiredToken ==
  [userId |-> 1, type |-> "refresh",
   iat |-> 0 - JwtRefreshExpiryDays * SecondsPerDay, exp |-> 0]

Presentable == jar \cup AccessTokens \cup {ExpiredToken}

NextCookies ==
  \/ Tick
  \/ \E p \in Slots :
       \/ StartLogin(p, Alice, PwA)
       \/ LoginFind(p)
       \/ LoginStore(p)
       \/ \E token \in Presentable \cup {NoToken} :
            \/ StartRefresh(p, token)
            \/ StartMe(p, token)
            \/ StartProtected(p, token)
       \/ RefreshLookup(p)
       \/ RefreshRevoke(p)
       \/ RefreshStore(p)
       \/ MeVerify(p)
       \/ AuthenticateToken(p)

SpecCookies == InitSession /\ [][NextCookies]_vars

\* C16: POST /refresh never accepts a token of kind access, and GET /me and
\* the authenticate middleware never accept a token of kind refresh: the
\* request is answered 401 and changes nothing in the store.
C16_TokenKindsNotInterchangeable ==
  /\ [][\A p \in Slots :
          ( /\ req[p].op = "refresh" /\ Steps(p)
            /\ req[p].arg.token.type = "access" )
          => /\ req'[p].pc = "done" /\ req'[p].status = 401
             /\ UNCHANGED <<db, jar>>]_vars
  /\ [][\A p \in Slots :
          ( /\ req[p].op \in {"me", "protected"} /\ Steps(p)
            /\ req[p].arg.token.type = "refresh" )
          => /\ req'[p].pc = "done" /\ req'[p].status = 401
             /\ UNCHANGED <<db, jar>>]_vars

\* An unexpired access token was refused by /refresh, and a token was refused
\* by /me although a refresh token of the user is live.
C16_Witness ==
  \E p, q \in Slots :
    /\ Done(p, "refresh") /\ req[p].arg.token.type = "access"
    /\ verifyJWT(req[p].arg.token, now) /\ req[p].status = 401
    /\ req[q].op = "me" /\ req[q].pc = "done" /\ req[q].status = 401
    /\ req[q].msg = "Invalid or expired token"
    /\ \E r \in jar : findValidRefreshToken(hashToken(r), now) # 0

\* C17: when POST /refresh rejects a presented token (jwtVerify fails, the
\* kind is not refresh, or no row of its hash is non-revoked and unexpired),
\* the answer is 401 AuthenticationError, both cookies are cleared and no
\* refresh token row is created or revoked.
C17_RejectedRefreshClearsCookies ==
  [][\A p \in Slots :
       LET token == req[p].arg.token
           live == \E i \in Rows(refreshTokens) :
                     /\ refreshTokens[i].tokenHash = hashToken(token)
                     /\ ~refreshTokens[i].revoked
                     /\ refreshTokens[i].expiresAt > now
       IN  ( /\ req[p].pc = "refresh_lookup" /\ Steps(p)
             /\ token # NoToken
             /\ \/ token.exp <= now
                \/ token.type # "refresh"
                \/ ~live
                \/ req'[p].pc = "done" )
           => /\ req'[p].pc = "done"
              /\ req'[p].status = 401
              /\ req'[p].err = "AuthenticationError"
              /\ req'[p].cookies = "cleared"
              /\ UNCHANGED refreshTokens]_vars

\* A rotated refresh token, still unexpired, was refused.
C17_Witness ==
  \E p \in Slots :
    /\ Done(p, "refresh") /\ req[p].status = 401
    /\ req[p].cookies = "cleared"
    /\ req[p].arg.token.type = "refresh"
    /\ verifyJWT(req[p].arg.token, now)

(***************************************************************************)
(* Logouts: one verified user who logs in, rotates the refresh token and   *)
(* logs out.                                                               *)
(***************************************************************************)
NextLogout ==
  \/ Tick
  \/ \E p \in Slots :
       \/ StartLogin(p, Alice, PwA)
       \/ LoginFind(p)
       \/ LoginStore(p)
       \/ \E token \in jar : StartRefresh(p, token)
       \/ RefreshLookup(p)
       \/ RefreshRevoke(p)
       \/ RefreshStore(p)
       \/ \E token \in jar \cup {ExpiredToken, NoToken} : StartLogout(p, token)
       \/ LogoutRevoke(p)

SpecLogout == InitSession /\ [][NextLogout]_vars

C20_NoRefreshAfterLogout ==
  \A p \in Slots :
    (Done(p, "refresh") /\ req[p].gh.loggedOut) => Rejected401(p)

(***************************************************************************)
(* Verifications: two unverified users whose verification mails were sent, *)
(* one of them a day ago, so that its token expires at second 1.           *)
(***************************************************************************)
UnverifiedUser(email, password) ==
  [VerifiedUser(email, password) EXCEPT !.emailVerified = FALSE]

EmailTokenRow(userId, token, createdAt) ==
  [userId |-> userId, tokenHash |-> hashToken(token), used |-> FALSE,
   expiresAt |-> createdAt + EMAIL_TOKEN_EXPIRY_HOURS * SecondsPerHour]

VerificationMail(userId, token) ==
  [type |-> "sendVerification", userId |-> userId,
   email |-> users[userId].email, token |-> token]

InitVerify ==
  /\ isConnected = FALSE
  /\ connectionAttempts = 0
  /\ now = 0
  /\ users = <<UnverifiedUser(Alice, PwA), UnverifiedUser(Bob, PwA)>>
  /\ emailTokens =
       <<EmailTokenRow(1, generateToken(1),
                       1 - EMAIL_TOKEN_EXPIRY_HOURS * SecondsPerHour),
         EmailTokenRow(2, generateToken(2), 0)>>
  /\ refreshTokens = <<>>
  /\ resetTokens = <<>>
  /\ identities = <<>>
  /\ mailQueue = <<VerificationMail(1, generateToken(1)),
                   VerificationMail(2, generateToken(2))>>
  /\ rng = 2
  /\ jar = {}
  /\ req = [p \in Slots |-> IdleReq]
  /\ hist = NoHistory

NextVerify ==
  \/ Tick
  \/ \E p \in Slots :
       \/ \E token \in MailedTokens("sendVerification") \cup {BogusToken} :
            StartVerify(p, token)
       \/ VerifyFind(p)
       \/ VerifyTx(p)
       \/ VerifyTxFails(p)
       \/ VerifyStore(p)

SpecVerify == InitVerify /\ [][NextVerify]_vars

\* C21: verifyEmailToken goes on to consume a token only if, when it looks,
\* a row with the token's hash has used = false and expiresAt later than the
\* current time; otherwise (unknown, used or expired token) it fails with
\* the one NotFoundError and changes no token row and no user.
C21_VerifyNeedsLiveToken ==
  /\ [][\A p \in Slots :
          LET live == \E i \in Rows(emailTokens) :
                        /\ emailTokens[i].tokenHash
                             = hashToken(req[p].arg.token)
                        /\ ~emailTokens[i].used
                        /\ emailTokens[i].expiresAt > now
          IN  (req[p].pc = "verify_find" /\ Steps(p)) =>
                IF live
                THEN req'[p].pc = "verify_tx"
                ELSE /\ req'[p].pc = "done"
                     /\ req'[p].status = 404
                     /\ req'[p].err = "NotFoundError"
                     /\ req'[p].msg = "Invalid or expired verification token"
                     /\ UNCHANGED db]_vars
  /\ [][\A p \in Slots :
          (req[p].op = "verify" /\ req'[p].op = "verify"
             /\ req'[p].status = 200 /\ req[p].status # 200)
            => req[p].pc = "verify_store"]_vars
  /\ [][\A p \in Slots :
          (req'[p].pc \in {"verify_tx", "verify_store"}
             /\ req'[p].pc # req[p].pc)
            => req[p].pc \in {"verify_find", "verify_tx"}]_vars

\* An unused token was refused because it had expired.
C21_Witness ==
  \E p \in Slots :
    /\ Done(p, "verify") /\ req[p].status = 404
    /\ req[p].arg.token = generateToken(1)
    /\ ~emailTokens[1].used

(***************************************************************************)
(* OAuth logins: a password signup awaiting verification, and provider     *)
(* accounts that log in for the first time and again, with and without    *)
(* provider tokens                                                         *)
(***************************************************************************)
Meta1 == [type |-> "object", displayName |-> "A"]

Grants ==
  {NoGrant,
   [accessToken |-> Str(<<1>>), refreshToken |-> Null, meta |-> Meta1],
   [accessToken |-> Str(<<>>), refreshToken |-> Str(<<0>>), meta |-> Null]}

InitOAuth ==
  /\ isConnected = FALSE
  /\ connectionAttempts = 0
  /\ now = 0
  /\ users = <<UnverifiedUser(Alice, PwA)>>
  /\ emailTokens = <<>>
  /\ refreshTokens = <<>>
  /\ resetTokens = <<>>
  /\ identities = <<>>
  /\ mailQueue = <<>>
  /\ rng = 0
  /\ jar = {}
  /\ req = [p \in Slots |-> IdleReq]
  /\ hist = NoHistory

NextOAuth ==
  \E p \in Slots :
    \/ \E providerUserId \in {"g-1", "g-2"},
          email \in {Email("alice", TRUE, TRUE), Bob}, grant \in Grants :
         StartOAuthLogin(p, "google", providerUserId, email, grant)
    \/ OAuthFind(p)
    \/ OAuthUpdate(p)
    \/ OAuthTx(p)
    \/ OAuthTxFails(p)
    \/ OAuthStore(p)

SpecOAuth == InitOAuth /\ [][NextOAuth]_vars

\* C22: no two identities rows share (provider, providerUserId) and every row
\* names one existing user; a first login whose transaction runs when the
\* provider account already has its row (a concurrent first login committed
\* it) is answered with an error and adds no users row and no identities row.
C22_OneIdentityPerProviderAccount ==
  /\ [](\A i, j \in Rows(identities) :
          /\ identities[i].userId \in Rows(users)
          /\ (/\ identities[i].provider = identities[j].provider
              /\ identities[i].providerUserId = identities[j].providerUserId)
               => i = j)
  /\ [][\A p \in Slots :
          (/\ req[p].pc = "oauth_tx"
           /\ Steps(p)
           /\ \E i \in Rows(identities) :
                /\ identities[i].provider = req[p].arg.provider
                /\ identities[i].providerUserId = req[p].arg.providerUserId)
            => /\ req'[p].pc = "done"
               /\ req'[p].status = 409
               /\ users' = users
               /\ identities' = identities]_vars

\* Two first logins of one provider account, under different emails, both
\* past the lookup; one has committed and the other's transaction is due.
C22_Witness ==
  \E p \in Slots, i \in Rows(identities) :
    /\ req[p].pc = "oauth_tx"
    /\ identities[i].provider = req[p].arg.provider
    /\ identities[i].providerUserId = req[p].arg.providerUserId
    /\ users[identities[i].userId].email # normalizeEmail(req[p].arg.email)

\* C23: the user of every identities row has emailVerified = TRUE; a user
\* without a password (created by an OAuth login) owns an identities row and
\* every identities row has its user; a step that adds a users row adds the
\* identities row of that user in the same step.
C23_IdentityOwnerVerified ==
  /\ [](/\ \A i \in Rows(identities) :
             /\ identities[i].userId \in Rows(users)
             /\ users[identities[i].userId].emailVerified
        /\ \A u \in Rows(users) :
             users[u].passwordHash = NullHash
               => \E i \in Rows(identities) : identities[i].userId = u)
  /\ [][/\ Len(users') > Len(users)
             => /\ Len(identities') = Len(identities) + 1
                /\ identities'[Len(identities')].userId = Len(users')
        /\ Len(identities') > Len(identities)
             => users'[identities'[Len(identities')].userId].emailVerified]_vars

\* The password signup that awaited verification is linked and verified, and
\* a user created by a first login owns its identity.
C23_Witness ==
  /\ \E i \in Rows(identities) :
       /\ users[identities[i].userId].passwordHash # NullHash
       /\ users[identities[i].userId].emailVerified
  /\ \E i \in Rows(identities) :
       users[identities[i].userId].passwordHash = NullHash

\* C24: the update of a known identity leaves a token column as it was when
\* that token did not come with the login, stores under a supplied token a
\* blob that decrypts to it, touches no other row, and no step ever changes
\* the user or the provider account of an identities row.
C24_UpdateKeepsUnsuppliedTokens ==
  /\ [][\A p \in Slots :
          (req[p].pc = "oauth_update" /\ Steps(p)) =>
            LET row == req[p].loc.identity
                old == identities[row]
                new == identities'[row]
            IN  /\ IF req[p].arg.accessToken \in {Null, Str(<<>>)}
                     THEN new.accessToken = old.accessToken
                   ELSE decrypt(new.accessToken) = req[p].arg.accessToken
                /\ IF req[p].arg.refreshToken \in {Null, Str(<<>>)}
                     THEN new.refreshToken = old.refreshToken
                   ELSE decrypt(new.refreshToken) = req[p].arg.refreshToken
                /\ \A i \in Rows(identities) \ {row} :
                     identities'[i] = identities[i]
                /\ Len(identities') = Len(identities)]_vars
  /\ [][\A i \in Rows(identities) :
          /\ identities'[i].userId = identities[i].userId
          /\ identities'[i].provider = identities[i].provider
          /\ identities'[i].providerUserId = identities[i].providerUserId]_vars

\* An identity holding both tokens: no login supplies both, so one of them
\* was kept by the update that stored the other.
C24_Witness ==
  \E i \in Rows(identities) :
    /\ identities[i].accessToken # Null
    /\ identities[i].refreshToken # Null

(***************************************************************************)
(* encrypt and decrypt on their own: a value is encrypted under a fresh    *)
(* nonce and decrypted again, and some stored blob, authentic or not, is   *)
(* decrypted next to it                                                    *)
(***************************************************************************)
MaxPlainLen == 2

BitStrings == UNION {[1..k -> {0, 1}] : k \in 0..MaxPlainLen}

Plaintexts == {Null} \cup {Str(chars) : chars \in BitStrings}

Blobs ==
  {Blob(iv, getAuthTag(tagIv, tagText), ciphertext) :
     iv \in IVs, tagIv \in IVs, tagText \in BitStrings,
     ciphertext \in BitStrings}

InitCipher ==
  /\ isConnected = FALSE
  /\ connectionAttempts = 0
  /\ now = 0
  /\ users = <<>>
  /\ emailTokens = <<>>
  /\ refreshTokens = <<>>
  /\ resetTokens = <<>>
  /\ identities = <<>>
  /\ mailQueue = <<>>
  /\ rng = 0
  /\ jar = {}
  /\ hist = NoHistory
  /\ \E plaintext \in Plaintexts, iv \in IVs, blob \in Blobs :
       req = [p \in Slots |->
                IF p = 1
                THEN [IdleReq EXCEPT !.op = "cipher", !.pc = "encrypt",
                                     !.arg = [plaintext |-> plaintext,
                                              iv |-> iv, blob |-> blob]]
                ELSE IdleReq]

Encrypt(p) ==
  /\ req[p].pc = "encrypt"
  /\ Goto(p, "decrypt",
          [encrypted |-> encrypt(req[p].arg.plaintext, req[p].arg.iv)])
  /\ UNCHANGED <<connection, now, users, emailTokens, refreshTokens, resetTokens,
                 identities, mailQueue, rng, jar, hist>>

Decrypt(p) ==
  /\ req[p].pc = "decrypt"
  /\ Goto(p, "done",
          [encrypted |-> req[p].loc.encrypted,
           decrypted |-> decrypt(req[p].loc.encrypted),
           other |-> decrypt(req[p].arg.blob)])
  /\ UNCHANGED <<connection, now, users, emailTokens, refreshTokens, resetTokens,
                 identities, mailQueue, rng, jar, hist>>

NextCipher == \E p \in Slots : Encrypt(p) \/ Decrypt(p)

SpecCipher == InitCipher /\ [][NextCipher]_vars

\* C25: encrypt gives null for null and for the empty string; what it gives
\* for any other value decrypts to that value; a blob that differs from that
\* output in the nonce only, in the tag only or in the ciphertext only fails
\* to decrypt, and so does every blob whose tag is not the tag of its nonce
\* and ciphertext: the answer is the error, never a value.
C25_DecryptInvertsEncryptOrFails ==
  \A p \in Slots :
    Done(p, "cipher") =>
      LET x == req[p].arg.plaintext
          e == req[p].loc.encrypted
          b == req[p].arg.blob
      IN  /\ (x = Null \/ x = Str(<<>>)) => e = Null /\ req[p].loc.decrypted = Null
          /\ (x # Null /\ x # Str(<<>>)) =>
               /\ e.type = "blob"
               /\ req[p].loc.decrypted = x
               /\ (/\ b # e
                   /\ \/ b.tag = e.tag /\ b.ciphertext = e.ciphertext
                      \/ b.iv = e.iv /\ b.ciphertext = e.ciphertext
                      \/ b.iv = e.iv /\ b.tag = e.tag)
                    => req[p].loc.other = DecryptionFailed
          /\ b.tag # <<"gcm", b.iv, b.ciphertext>>
               => req[p].loc.other = DecryptionFailed

\* A value was encrypted and decrypted, and a copy of the blob with another
\* nonce was refused.
C25_Witness ==
  \E p \in Slots :
    /\ Done(p, "cipher")
    /\ req[p].arg.plaintext = Str(<<1, 0>>)
    /\ req[p].loc.decrypted = Str(<<1, 0>>)
    /\ req[p].arg.blob.iv # req[p].loc.encrypted.iv
    /\ req[p].arg.blob.tag = req[p].loc.encrypted.tag
    /\ req[p].arg.blob.ciphertext = req[p].loc.encrypted.ciphertext
    /\ req[p].loc.other = DecryptionFailed

(***************************************************************************)
(* Rotation with a store that may reject a call: one verified user logs    *)
(* in and rotates refresh tokens while single store calls fail             *)
(***************************************************************************)
\* The error a failed findFirst leaves behind in the handler.
LookupError == [failedCall |-> "verifyRefreshToken"]

\* prisma.refreshToken.findFirst rejects (connection lost, timeout): the catch
\* around verifyRefreshToken answers it like a missing row
RefreshLookupFails(p) ==
  /\ req[p].pc = "refresh_lookup"
  /\ req[p].arg.token # NoToken
  /\ verifyJWT(req[p].arg.token, now)
  /\ req[p].arg.token.type = "refresh"
  /\ req' = [req EXCEPT ![p].pc = "done", ![p].status = 401,
                        ![p].err = "AuthenticationError",
                        ![p].msg = "Invalid or expired refresh token",
                        ![p].cookies = "cleared", ![p].loc = LookupError]
  /\ UNCHANGED <<connection, identities, now, users, emailTokens, refreshTokens,
                 resetTokens, mailQueue, rng, jar, hist>>

\* revokeRefreshToken rejects: nothing was written, the error handler answers
RefreshRevokeFails(p) ==
  /\ req[p].pc = "refresh_revoke"
  /\ Fail(p, "P1001")
  /\ UNCHANGED <<connection, identities, now, users, emailTokens, refreshTokens,
                 resetTokens, mailQueue, rng, jar, hist>>

\* storeRefreshToken rejects after the revoke was written
RefreshStoreFails(p) ==
  /\ req[p].pc = "refresh_store"
  /\ Fail(p, "P1001")
  /\ hist' = [hist EXCEPT !.storeFailed = @ \cup {req[p].arg.token}]
  /\ UNCHANGED <<connection, identities, now, users, emailTokens, refreshTokens,
                 resetTokens, mailQueue, rng, jar>>

NextRefresh ==
  \/ Tick
  \/ \E p \in Slots :
       \/ StartLogin(p, Alice, PwA)
       \/ LoginFind(p)
       \/ LoginStore(p)
       \/ \E token \in jar : StartRefresh(p, token)
       \/ RefreshLookup(p)
       \/ RefreshLookupFails(p)
       \/ RefreshRevoke(p)
       \/ RefreshRevokeFails(p)
       \/ RefreshStore(p)
       \/ RefreshStoreFails(p)

SpecRefresh == InitSession /\ [][NextRefresh]_vars

\* C26: a POST /refresh whose row lookup was rejected by the store (not: found
\* no valid row) is answered with a server error, not with 401, and its
\* cookies are left as they were.
C26_LookupFailureIsServerError ==
  \A p \in Slots :
    (Done(p, "refresh") /\ req[p].loc = LookupError) =>
      /\ req[p].status >= 500
      /\ req[p].cookies = "kept"

\* C27: a POST /refresh that found a valid row stores the replacement row and
\* sets the cookies of the new pair only in a step taken when the row it
\* found is revoked with revokedAt set, and its revoke step leaves that row
\* so.
C27_RevokeBeforeReplacement ==
  /\ [][\A p \in Slots :
          (/\ req[p].op = "refresh"
           /\ Steps(p)
           /\ \/ req'[p].cookies = "set"
              \/ req'[p].status = 200
              \/ Len(refreshTokens') > Len(refreshTokens))
            => /\ req[p].pc = "refresh_store"
               /\ refreshTokens[req[p].loc.row].revoked
               /\ refreshTokens[req[p].loc.row].revokedAt >= 0
               /\ refreshTokens[req[p].loc.row].tokenHash
                    = hashToken(req[p].arg.token)]_vars
  /\ [][\A p \in Slots :
          (req[p].op = "refresh" /\ req'[p].pc = "refresh_store") =>
            /\ refreshTokens'[req'[p].loc.row].revoked
            /\ refreshTokens'[req'[p].loc.row].revokedAt >= 0]_vars

\* A rotation has answered with the new pair; the row it was presented is
\* revoked and the replacement is the row after it.
C27_Witness ==
  \E p \in Slots :
    /\ Done(p, "refresh")
    /\ req[p].status = 200
    /\ req[p].cookies = "set"
    /\ refreshTokens[req[p].loc.row].revoked
    /\ Len(refreshTokens) > req[p].loc.row

\* C28: every login and every rotation hands out a refresh token that was
\* never handed out before, and no row that is not revoked carries the hash
\* of a revoked row.
C28_IssuedTokensDistinct ==
  /\ [][\A p \in Slots :
          (/\ req[p].pc \in {"login_store", "refresh_store"}
           /\ Steps(p)
           /\ req'[p].status = 200)
            => jar' # jar]_vars
  /\ [](\A i, j \in Rows(refreshTokens) :
          (refreshTokens[i].tokenHash = refreshTokens[j].tokenHash
             /\ refreshTokens[i].revoked)
          => refreshTokens[j].revoked)

\* C29: after a rotation that revoked R and then failed to store the
\* replacement, every row with the hash of R is revoked, and a POST /refresh
\* that presents R again is rejected with 401.
C29_FailedStoreLeavesRevoked ==
  /\ \A token \in hist.storeFailed :
       \A i \in Rows(refreshTokens) :
         refreshTokens[i].tokenHash = hashToken(token)
           => refreshTokens[i].revoked
  /\ \A p \in Slots :
       (Done(p, "refresh") /\ req[p].gh.storeFailed) => Rejected401(p)

\* C30: when a POST /refresh that presents a refresh token issued to U before
\* a password reset of U, and that reset, have run concurrently and both have
\* finished with success, no row of U is left that is not revoked: neither
\* after the reset's last step, nor the row a rotation stores for the
\* pre-reset token once the reset has finished.
C30_NoSessionSurvivesConcurrentReset ==
  /\ [][\A q \in Slots :
          (req[q].pc = "reset_revoke" /\ Steps(q) /\ req'[q].status = 200) =>
            \A i \in Rows(refreshTokens') :
              refreshTokens'[i].userId = req[q].loc.user
                => refreshTokens'[i].revoked]_vars
  /\ [][\A p, q \in Slots :
          (/\ req[p].pc = "refresh_store"
           /\ Steps(p)
           /\ req'[p].status = 200
           /\ Done(q, "reset")
           /\ req[q].status = 200
           /\ Overlap(p, q)
           /\ req[q].loc.user = req[p].loc.user
           /\ req[p].arg.token
                \in TokensBefore(req[q].loc.user, req[q].gh.rowsAtStart))
            => \A i \in Rows(refreshTokens') :
                 refreshTokens'[i].userId = req[p].loc.user
                   => refreshTokens'[i].revoked]_vars

\* C31: when a POST /logout and a POST /refresh that present the same refresh
\* token R have run concurrently and both have finished, no row with the hash
\* of R is left that is not revoked, and the row the rotation stored in
\* exchange for R is revoked: a rotation that answers after the logout has
\* finished stores no row that is not revoked.
C31_LogoutEndsConcurrentRotation ==
  /\ [][\A q \in Slots :
          (req[q].pc = "logout_revoke" /\ Steps(q)
             /\ req[q].arg.token # NoToken) =>
            \A i \in Rows(refreshTokens') :
              refreshTokens'[i].tokenHash = hashToken(req[q].arg.token)
                => refreshTokens'[i].revoked]_vars
  /\ [][\A p, q \in Slots :
          (/\ req[p].pc = "refresh_store"
           /\ Steps(p)
           /\ req'[p].status = 200
           /\ Done(q, "logout")
           /\ Overlap(p, q)
           /\ req[q].arg.token = req[p].arg.token)
            => refreshTokens'[Len(refreshTokens')].revoked]_vars

(***************************************************************************)
(* Password resets: a user with one session who asked for a reset twice,   *)
(* so that two reset tokens are out, and resets with passwords that do and *)
(* do not meet the policy                                                  *)
(***************************************************************************)
WeakPasswords ==
  {<<>>,
   <<"U", "L", "D">>,
   <<"L", "L", "L", "L", "D", "D", "D", "D">>,
   <<"U", "U", "U", "U", "D", "D", "D", "D">>,
   <<"U", "U", "L", "L", "L", "L", "L", "L">>}

ResetTokenRow(userId, token, createdAt) ==
  [userId |-> userId, tokenHash |-> hashToken(token), used |-> FALSE,
   expiresAt |-> createdAt + ResetTokenHours * SecondsPerHour]

ResetMail(userId, token) ==
  [type |-> "sendPasswordReset", userId |-> userId,
   email |-> users[userId].email, token |-> token]

InitReset ==
  /\ isConnected = FALSE
  /\ connectionAttempts = 0
  /\ now = 0
  /\ users = <<VerifiedUser(Alice, PwA)>>
  /\ emailTokens = <<>>
  /\ refreshTokens =
       <<[userId |-> 1, tokenHash |-> hashToken(createRefreshToken(1, 0)),
          expiresAt |-> RefreshRowDays * SecondsPerDay, revoked |-> FALSE,
          revokedAt |-> -1]>>
  /\ resetTokens = <<ResetTokenRow(1, generateToken(1), 0),
                     ResetTokenRow(1, generateToken(2), 0)>>
  /\ identities = <<>>
  /\ mailQueue = <<ResetMail(1, generateToken(1)),
                   ResetMail(1, generateToken(2))>>
  /\ rng = 2
  /\ jar = {createRefreshToken(1, 0)}
  /\ req = [p \in Slots |-> IdleReq]
  /\ hist = NoHistory

NextReset ==
  \/ Tick
  \/ \E p \in Slots :
       \/ \E token \in MailedTokens("sendPasswordReset"),
             newPassword \in WeakPasswords \cup {PwB} :
            StartReset(p, token, newPassword)
       \/ ResetLookup(p)
       \/ ResetTx(p)
       \/ ResetRevokeAll(p)
       \/ ResetRevokeAllFails(p)

SpecReset == InitReset /\ [][NextReset]_vars

\* C32: once resetPassword has returned success for a user with one reset
\* token, a resetPassword that presents another reset token issued to that
\* user before is refused at the lookup.
C32_OtherResetTokensDie ==
  [][\A p, q \in Slots :
       (/\ req[p].pc = "reset_lookup"
        /\ Steps(p)
        /\ Done(q, "reset")
        /\ req[q].status = 200
        /\ ~Overlap(p, q)
        /\ req[q].arg.token # req[p].arg.token
        /\ \E i, j \in Rows(resetTokens) :
             /\ resetTokens[i].tokenHash = hashToken(req[p].arg.token)
             /\ resetTokens[j].tokenHash = hashToken(req[q].arg.token)
             /\ resetTokens[i].userId = resetTokens[j].userId)
         => /\ req'[p].pc = "done"
            /\ req'[p].status \in {400, 404}]_vars

\* C38: resetPassword with a new password of fewer than 8 characters, or
\* without an uppercase letter, a lowercase letter or a digit, is answered
\* with ValidationError in its first step and changes no row: the reset token
\* stays unused, the password hash stays and no refresh token is revoked.
C38_WeakPasswordChangesNothing ==
  [][\A p \in Slots :
       (/\ req[p].pc = "reset_lookup"
        /\ Steps(p)
        /\ \/ Len(req[p].arg.newPassword) < 8
           \/ \E class \in {"U", "L", "D"} :
                \A i \in 1..Len(req[p].arg.newPassword) :
                  req[p].arg.newPassword[i] # class)
         => /\ req'[p].pc = "done"
            /\ req'[p].status = 400
            /\ req'[p].err = "ValidationError"
            /\ UNCHANGED db]_vars

\* A reset with a password without a digit was refused while its token was
\* unused and unexpired, and the token still is.
C38_Witness ==
  \E p \in Slots, i \in Rows(resetTokens) :
    /\ Done(p, "reset")
    /\ req[p].status = 400
    /\ req[p].arg.newPassword = <<"U", "U", "L", "L", "L", "L", "L", "L">>
    /\ resetTokens[i].tokenHash = hashToken(req[p].arg.token)
    /\ ~resetTokens[i].used
    /\ resetTokens[i].expiresAt > now
    /\ users[1].passwordHash = argon2Hash(PwA)
    /\ ~refreshTokens[1].revoked

\* C33: once a user is emailVerified through the consumption of one
\* verification token, a verification that presents another token of that
\* user is refused at the lookup (404), so that verification issues at most
\* one session per user.
C33_VerifiedUserTokensDie ==
  [][\A p \in Slots :
       (/\ req[p].pc = "verify_find"
        /\ Steps(p)
        /\ \E i, j \in Rows(emailTokens) :
             /\ emailTokens[i].tokenHash = hashToken(req[p].arg.token)
             /\ i # j
             /\ emailTokens[j].userId = emailTokens[i].userId
             /\ emailTokens[j].used
             /\ users[emailTokens[i].userId].emailVerified)
         => /\ req'[p].pc = "done"
            /\ req'[p].status = 404]_vars

(***************************************************************************)
(* Every way to a session: a user who signed up with a password and has    *)
(* not verified yet logs in, verifies, logs in through a provider and      *)
(* rotates, next to a first provider login of somebody else                *)
(***************************************************************************)
InitIssue ==
  /\ isConnected = FALSE
  /\ connectionAttempts = 0
  /\ now = 0
  /\ users = <<UnverifiedUser(Carol, PwA)>>
  /\ emailTokens = <<EmailTokenRow(1, generateToken(1), 0)>>
  /\ refreshTokens = <<>>
  /\ resetTokens = <<>>
  /\ identities = <<>>
  /\ mailQueue = <<VerificationMail(1, generateToken(1))>>
  /\ rng = 1
  /\ jar = {}
  /\ req = [p \in Slots |-> IdleReq]
  /\ hist = NoHistory

NextIssue ==
  \E p \in Slots :
    \/ StartLogin(p, Carol, PwA)
    \/ LoginFind(p)
    \/ LoginStore(p)
    \/ \E token \in MailedTokens("sendVerification") : StartVerify(p, token)
    \/ VerifyFind(p)
    \/ VerifyTx(p)
    \/ VerifyTxFails(p)
    \/ VerifyStore(p)
    \/ \E email \in {Carol, Bob} :
         StartOAuthLogin(p, "google", email.local, email, NoGrant)
    \/ OAuthFind(p)
    \/ OAuthTx(p)
    \/ OAuthTxFails(p)
    \/ OAuthStore(p)
    \/ \E token \in jar : StartRefresh(p, token)
    \/ RefreshLookup(p)
    \/ RefreshRevoke(p)
    \/ RefreshStore(p)

SpecIssue == InitIssue /\ [][NextIssue]_vars

\* C34: with ALLOW_UNVERIFIED_LOGIN false, every refresh token row belongs to
\* a user whose emailVerified is TRUE, and emailVerified never goes back to
\* FALSE.
C34_SessionsOnlyForVerifiedUsers ==
  /\ [](\A i \in Rows(refreshTokens) :
          /\ refreshTokens[i].userId \in Rows(users)
          /\ users[refreshTokens[i].userId].emailVerified)
  /\ [][\A u \in Rows(users) :
          users[u].emailVerified => users'[u].emailVerified]_vars

\* The user who signed up with a password was refused at the login while
\* unverified, and holds sessions now.
C34_Witness ==
  /\ \E p \in Slots :
       /\ Done(p, "login")
       /\ req[p].msg = "Please verify your email address before logging in"
  /\ \E q \in Slots : Done(q, "login") /\ req[q].status = 200
  /\ \E i \in Rows(refreshTokens) : refreshTokens[i].userId = 1

\* C35: an updateUserRole whose caller is not SUPERUSER never changes the
\* role of a user who holds SUPERUSER.
C35_LowerRoleLeavesSuperuser ==
  [][\A p \in AdminSlots :
       (/\ req[p].pc = "role_update"
        /\ Steps(p)
        /\ req[p].loc.currentUserRole # "SUPERUSER")
         => \A u \in Rows(users) :
              users[u].role = "SUPERUSER" => users'[u].role = "SUPERUSER"]_vars

(***************************************************************************)
(* Role changes with every kind of request: callers without a token, with  *)
(* a token of no user, with and without an administrator's role; targets   *)
(* that exist and do not; roles that exist, do not, or are missing         *)
(***************************************************************************)
InitRoles ==
  /\ isConnected = FALSE
  /\ connectionAttempts = 0
  /\ now = 0
  /\ users = <<[VerifiedUser(Alice, PwA) EXCEPT !.role = "SUPERUSER"],
               [VerifiedUser(Bob, PwA) EXCEPT !.role = "ADMIN"]>>
  /\ emailTokens = <<>>
  /\ refreshTokens = <<>>
  /\ resetTokens = <<>>
  /\ identities = <<>>
  /\ mailQueue = <<>>
  /\ rng = 0
  /\ jar = {}
  /\ req = [p \in Slots |-> IdleReq]
  /\ hist = NoHistory

NextRoles ==
  \E p \in Slots :
    \/ \E caller \in 0..(MaxUsers + 1), target \in 1..(MaxUsers + 1),
          newRole \in {"", "ROOT", "USER", "ADMIN", "SUPERUSER"} :
         StartUpdateRole(p, caller, target, newRole)
    \/ Authenticate(p)
    \/ RoleFind(p)
    \/ RoleCheck(p)
    \/ RoleUpdate(p)

SpecRoles == InitRoles /\ [][NextRoles]_vars

\* C36: the role handler goes on past the middlewares only when the caller of
\* the access token exists and its role in the store at that step is ADMIN or
\* SUPERUSER, whatever the role was when the token was issued; every other
\* request is answered 401 or 403 there and changes no row, and no step of the
\* handler is reached in another way.
C36_HandlerOnlyForCurrentAdmins ==
  /\ [][\A p \in Slots :
          (req[p].pc = "role_auth" /\ Steps(p)) =>
            IF /\ req[p].arg.caller \in Rows(users)
               /\ users[req[p].arg.caller].role \in {"ADMIN", "SUPERUSER"}
              THEN \/ req'[p].pc = "role_find"
                   \/ /\ req'[p].pc = "done"
                      /\ req'[p].err \in {"ValidationError",
                                          "AuthorizationError"}
                      /\ req'[p].msg # "Insufficient permissions"
            ELSE /\ req'[p].pc = "done"
                 /\ \/ req'[p].status = 401
                    \/ /\ req'[p].status = 403
                       /\ req'[p].msg = "Insufficient permissions"
                 /\ UNCHANGED db]_vars
  /\ [][\A p \in Slots :
          (req'[p].pc \in {"role_find", "role_check", "role_update"}
             /\ req'[p].pc # req[p].pc)
            => req[p].pc \in {"role_auth", "role_find", "role_check"}]_vars
  /\ [][\A p \in Slots :
          (req[p].pc = "role_auth" /\ Steps(p)) => UNCHANGED db]_vars

\* The administrator of the start has been given the role USER, and a later
\* request of that user was stopped with 403.
C36_Witness ==
  /\ users[2].role = "USER"
  /\ \E p \in Slots :
       /\ req[p].op = "role" /\ req[p].pc = "done"
       /\ req[p].status = 403
       /\ req[p].msg = "Insufficient permissions"

\* C37: an updateUserRole that fails changes no user's role; it fails with
\* ValidationError when the role is missing or not one of the four, with
\* NotFoundError when the target does not exist, and with ConflictError when
\* the target holds the requested role already.
C37_FailedRoleUpdateChangesNothing ==
  /\ [][\A p \in Slots :
          (req[p].op = "role" /\ Steps(p) /\ req'[p].pc = "done"
             /\ req'[p].status # 200)
            => users' = users]_vars
  /\ [][\A p \in Slots :
          (/\ req[p].pc = "role_auth"
           /\ Steps(p)
           /\ req[p].arg.caller \in Rows(users)
           /\ users[req[p].arg.caller].role \in {"ADMIN", "SUPERUSER"}
           /\ req[p].arg.newRole
                \notin {"USER", "MANAGER", "ADMIN", "SUPERUSER"})
            => /\ req'[p].pc = "done"
               /\ req'[p].err = "ValidationError"]_vars
  /\ [][\A p \in Slots :
          (req[p].pc = "role_find" /\ Steps(p)) =>
            IF req[p].arg.targetUserId \notin Rows(users)
              THEN req'[p].pc = "done" /\ req'[p].err = "NotFoundError"
            ELSE IF users[req[p].arg.targetUserId].role = req[p].arg.newRole
              THEN req'[p].pc = "done" /\ req'[p].err = "ConflictError"
            ELSE req'[p].pc # "done"]_vars

\* One call was refused for a target that does not exist and one for a role
\* the target has.
C37_Witness ==
  \E p, q \in Slots :
    /\ req[p].op = "role" /\ req[p].pc = "done"
    /\ req[p].err = "NotFoundError"
    /\ req[q].op = "role" /\ req[q].pc = "done"
    /\ req[q].msg = "User already has the role"

(***************************************************************************)
(* lib/prisma.js: the connection state of the module, connectWithRetry and *)
(* executeWithReconnect.  A slot holds one call, of connectWithRetry at    *)
(* module load or of executeWithReconnect; one step is one await.          *)
(* A call that returns ends with err = "", a call that throws ends with    *)
(* err = "Error" and the message of what it threw in msg.                  *)
(***************************************************************************)
MAX_CONNECTION_ATTEMPTS == 5

\* Failed attempts one call is followed through.
MaxFailed == 6

Unreachable == "Can't reach database server"

\* What prisma.$connect and a query fail with, as far as the tests on the
\* message tell them apart.
ErrorMessages ==
  {Unreachable, "Closed", "ETIMEDOUT", "Unique constraint failed"}

\* connectWithRetry's test for a database that cannot be reached.
isUnreachableError(errorMessage) ==
  errorMessage \in {Unreachable, "Connection refused", "ENOTFOUND", "ETIMEDOUT"}

\* executeWithReconnect's test on the message of a failed query.
isLostMessage(errorMessage) ==
  errorMessage \in {"Closed", Unreachable, "Connection terminated",
                    "Connection refused"}

\* executeWithReconnect's whole test: the flag or the message.
isConnectionLost(errorMessage) ==
  ~isConnected \/ isLostMessage(errorMessage)

\* The handler of prisma's error event has a test of its own.
isClosedEvent(errorMessage) ==
  errorMessage \in {"Closed", Unreachable, "Connection terminated"}

retryDelay(attempts) ==
  IF 1000 * 2 ^ (attempts - 1) < 10000 THEN 1000 * 2 ^ (attempts - 1)
  ELSE 10000

\* Ghost of a call: the attempts of its own that failed.
NoCall == [peers |-> {}, failed |-> 0]

\* connectWithRetry returns to its caller: executeWithReconnect goes on to
\* run the query again.
ConnectReturns(p) ==
  IF req[p].op = "query"
  THEN req' = [req EXCEPT ![p].pc = "requery", ![p].loc = NoArg]
  ELSE Reply(p, "connect", 0, "", "", "kept")

ConnectSucceeds(p) ==
  /\ req[p].pc = "connecting"
  /\ isConnected' = TRUE
  /\ connectionAttempts' = 0
  /\ ConnectReturns(p)
  /\ UNCHANGED <<now, db, mailQueue, rng, jar, hist>>

ConnectFails(p, errorMessage, databaseUrl) ==
  /\ req[p].pc = "connecting"
  /\ req[p].gh.failed < MaxFailed
  /\ connectionAttempts' = connectionAttempts + 1
  /\ IF ~databaseUrl
       THEN Reply(p, req[p].op, 0, "Error", "DATABASE_URL is not set", "kept")
     ELSE IF ~isUnreachableError(errorMessage)
       THEN Reply(p, req[p].op, 0, "Error", errorMessage, "kept")
     ELSE IF connectionAttempts' >= MAX_CONNECTION_ATTEMPTS
       THEN Reply(p, req[p].op, 0, "Error", "Failed to connect to database",
                  "kept")
     ELSE req' = [req EXCEPT
                    ![p].pc = "waiting",
                    ![p].loc = [delay |-> retryDelay(connectionAttempts')],
                    ![p].gh.failed = @ + 1]
  /\ UNCHANGED <<isConnected, now, db, mailQueue, rng, jar, hist>>

\* The timer of the backoff fires: `continue` evaluates the loop's test, and
\* a false test ends the function.
DelayElapses(p) ==
  /\ req[p].pc = "waiting"
  /\ IF connectionAttempts < MAX_CONNECTION_ATTEMPTS
     THEN req' = [req EXCEPT ![p].pc = "connecting", ![p].loc = NoArg]
     ELSE ConnectReturns(p)
  /\ UNCHANGED <<connection, now, db, mailQueue, rng, jar, hist>>

\* executeWithReconnect(queryFn): the first run of the query.
StartQuery(p) ==
  /\ Startable(p)
  /\ Begin(p, "query", "query", NoArg, NoCall)
  /\ UNCHANGED <<connection, now, db, mailQueue, rng, jar, hist>>

QuerySucceeds(p) ==
  /\ req[p].pc \in {"query", "requery"}
  /\ Reply(p, "query", 0, "", "", "kept")
  /\ UNCHANGED <<connection, now, db, mailQueue, rng, jar, hist>>

\* The first run fails: a lost connection is reconnected (the call of
\* connectWithRetry runs up to its first await), any other error is thrown.
QueryFails(p, errorMessage) ==
  /\ req[p].pc = "query"
  /\ IF isConnectionLost(errorMessage)
     THEN /\ isConnected' = FALSE
          /\ connectionAttempts' = 0
          /\ req' = [req EXCEPT ![p].pc = "connecting",
                                ![p].arg = [errorMessage |-> errorMessage]]
     ELSE /\ Reply(p, "query", 0, "Error", errorMessage, "kept")
          /\ UNCHANGED connection
  /\ UNCHANGED <<now, db, mailQueue, rng, jar, hist>>

\* The second run fails: its error is what the call throws.
RequeryFails(p, errorMessage) ==
  /\ req[p].pc = "requery"
  /\ Reply(p, "query", 0, "Error", errorMessage, "kept")
  /\ UNCHANGED <<connection, now, db, mailQueue, rng, jar, hist>>

\* prisma.$on('error'): a closed connection clears the flag.
ErrorEvent(errorMessage) ==
  /\ isConnected
  /\ isClosedEvent(errorMessage)
  /\ isConnected' = FALSE
  /\ UNCHANGED <<connectionAttempts, now, db, mailQueue, rng, jar, req, hist>>

\* The module has been loaded: its own call of connectWithRetry is waiting
\* for prisma.$connect.
InitPrisma ==
  /\ isConnected = FALSE
  /\ connectionAttempts = 0
  /\ now = 0
  /\ users = <<>>
  /\ emailTokens = <<>>
  /\ refreshTokens = <<>>
  /\ resetTokens = <<>>
  /\ identities = <<>>
  /\ mailQueue = <<>>
  /\ rng = 0
  /\ jar = {}
  /\ hist = NoHistory
  /\ req = [p \in Slots |->
              IF p = 1
              THEN [IdleReq EXCEPT !.op = "connect", !.pc = "connecting",
                                   !.gh = NoCall]
              ELSE IdleReq]

NextPrisma ==
  \/ \E p \in Slots : ConnectSucceeds(p)
  \/ \E p \in Slots, errorMessage \in ErrorMessages, databaseUrl \in BOOLEAN :
       ConnectFails(p, errorMessage, databaseUrl)
  \/ \E p \in Slots : DelayElapses(p)
  \/ \E p \in Slots : StartQuery(p)
  \/ \E p \in Slots : QuerySucceeds(p)
  \/ \E p \in Slots, errorMessage \in ErrorMessages : QueryFails(p, errorMessage)
  \/ \E p \in Slots, errorMessage \in ErrorMessages :
       RequeryFails(p, errorMessage)
  \/ \E errorMessage \in ErrorMessages : ErrorEvent(errorMessage)

SpecPrisma == InitPrisma /\ [][NextPrisma]_vars

\* C39: a call of connectWithRetry that returns has set isConnected; no call
\* sees more than MAX_CONNECTION_ATTEMPTS of its own attempts fail; and the
\* delay after its n-th failed attempt is min(1000 * 2^(n-1), 10000) ms,
\* also when calls overlap.
C39_ConnectEndsConnectedOrThrows ==
  /\ [][\A p \in Slots :
          (/\ req[p].pc \in {"connecting", "waiting"}
           /\ Steps(p)
           /\ \/ req'[p].pc = "requery"
              \/ req'[p].pc = "done" /\ req'[p].err = "")
            => isConnected']_vars
  /\ [][\A p \in Slots :
          (/\ req[p].pc = "connecting"
           /\ Steps(p)
           /\ req'[p].pc = "waiting" \/ req'[p].err = "Error")
            => req[p].gh.failed < MAX_CONNECTION_ATTEMPTS]_vars
  /\ [][\A p \in Slots :
          (req[p].pc = "connecting" /\ req'[p].pc = "waiting")
            => req'[p].loc.delay = retryDelay(req'[p].gh.failed)]_vars

\* C40: executeWithReconnect runs the query a second time only after the
\* first run failed with a connection error and the reconnect succeeded; a
\* first run that fails with any other error is not followed by a reconnect.
C40_RerunOnlyAfterReconnect ==
  /\ [][\A p \in Slots :
          (req[p].pc = "query" /\ req'[p].pc = "connecting")
            => isLostMessage(req'[p].arg.errorMessage)]_vars
  /\ [][\A p \in Slots :
          (req[p].pc \in {"connecting", "waiting"} /\ req'[p].pc = "requery")
            => /\ isLostMessage(req[p].arg.errorMessage)
               /\ req[p].pc = "connecting"
               /\ isConnected']_vars

====
